---- MODULE Spec2Model ----
(***************************************************************************)
(* A model of the VectorDB key/value server: the command processor, the    *)
(* entry/TTL manager, the position-tracked binary heap, the sorted set and *)
(* the per-connection request/response state machine.                      *)
(***************************************************************************)
EXTENDS Integers, Sequences, FiniteSets, TLC

VARIABLES
    db,         \* key index: key -> Entry record, or NoEntry
    heap,       \* BinaryHeap<uint64_t>::items_ : sequence of [val, ref]
    now,        \* the monotonic clock, in microseconds
    args,       \* the argument vector of the request handled last
    response,   \* the token stream the last request wrote
    lastSet,    \* history: key -> value of the last successful SET
    lastTTL,    \* history: key -> expire time asked for by the last PEXPIRE
    zset,       \* a ZSet on its own: [alloc, hash, tree]
    zcall,      \* the last call on zset, with what it returned
    conn,       \* a Connection: [state_, rbuf_, wbuf_, wbuf_sent_]
    sock_in,    \* bytes the peer sent that the server has not read
    sock_out,   \* bytes the server wrote to the socket
    peer_closed, \* the peer has shut its side down
    fate,       \* "running", "aborted" (failed assert) or "hung" (endless loop)
    sent,       \* history: the requests the peer sent, in order
    executed,   \* history: the requests handed to process_command, in order
    seen,       \* history: how many requests had arrived at the last process_io
    ndebug,     \* the build compiles assert() out
    pcall,      \* the last call on the request parser, with what it returned
    items_,     \* a BinaryHeap on its own: the sequence of its items
    slots,      \* the size_t objects the position references point at
    root_,      \* an AVLTree on its own: its root node
    pairs,      \* history: the <<key, value>> pairs set and not deleted
    hmap,       \* a HashMap on its own
    present,    \* history: the keys inserted and not removed since
    hcall,      \* the last call on hmap, with what it returned
    connections_, \* Server: fd -> [open, idle_start_, state_] of the connection
    idle_list_, \* Server: the fds of the idle list, head first
    pool,       \* ThreadPool: key -> how often its entry was enqueued for destruction
    timers,     \* Server: [ticks, fate, touched, waiting, ended] of the event loop
    tasks_,     \* ThreadPool: the queue of tasks
    stop,       \* ThreadPool: the stop flag
    threads_,   \* ThreadPool: worker -> [pc, task], where the worker thread stands
    condition_, \* ThreadPool: the threads blocked in condition_.wait
    callers,    \* the threads that use the pool: where each stands in its call
    tstate,     \* history: task -> [status, runs]
    skiplist,   \* a SkipList<int, int>: [nodes, currentLevel, fate]
    sthreads,   \* thread -> [pc, key, update, level]: where it stands in set or del
    slast,      \* history: key -> the operation on it that was completed last
    sget,       \* the last get call, with what it returned
    flush,      \* a Connection that sends replies: [c, out, want, blocked]
    ztasks,     \* a ZSet with its pool: [mutex_, queue, thr, hash, tree, ...]
    slocks      \* SkipList: [owner, todo, order] of the node locks

cmdVars == <<db, heap, now, args, response, lastSet, lastTTL>>
zsetVars == <<zset, zcall>>
connVars ==
    <<conn, sock_in, sock_out, peer_closed, fate, sent, executed, seen, ndebug>>
parseVars == <<pcall>>
heapVars == <<items_, slots>>
avlVars == <<root_, pairs>>
hmVars == <<hmap, present, hcall>>
srvVars == <<connections_, idle_list_, pool, timers>>
poolVars == <<tasks_, stop, threads_, condition_, callers, tstate>>
skipVars == <<skiplist, sthreads, slast, sget>>
unitVars == <<flush, ztasks, slocks>>
concVars == <<poolVars, skipVars, unitVars>>
moreVars == <<parseVars, heapVars, avlVars, hmVars, srvVars, concVars>>
vars == <<cmdVars, zsetVars, connVars, moreVars>>

----------------------------------------------------------------------------
(* Bounds of the model *)

MaxNow == 1000          \* the clock stops advancing here (microseconds)
TickUs == 500           \* microseconds that pass between two requests
MaxScore == 3           \* scores given to ZSet members are 1..MaxScore
MaxFrames == 3          \* requests a peer sends on one connection
MaxHeap == 4            \* items in the BinaryHeap on its own
MaxSkipKey == 2         \* the keys of the SkipList are 1..MaxSkipKey
MaxReplies == 2          \* replies the flushing connection is given to send
MaxSkipNodes == 4       \* nodes of the SkipList, the head included
MaxTasks == 3           \* tasks given to the ThreadPool
MaxAdds == 3            \* ZSet::add calls
MaxLockNodes == 3       \* nodes of the SkipList whose locks are followed, the head included
MaxTicks == 2           \* process_timers calls in one run of the server
ElapseUs == 2500000     \* microseconds that pass while the server waits in poll
MaxElapse == 2          \* how often the server waits that long
MaxHashKeys == 32       \* the keys of the HashMap on its own are 1..MaxHashKeys
MaxAvlKey == 5          \* the keys of the AVL tree on its own are 1..MaxAvlKey

----------------------------------------------------------------------------
(* Program constants *)

ERR_ARG == -1
ERR_UNKNOWN == -2
ERR_TYPE == -3
MAX_MSG_SIZE == 4096

Keys == {"k1", "k2"}
Vals == {"v1", "v2"}
Names == {"", "a", "b", "c", "d"}

NULL == "NULL"
NONE == -1              \* static_cast<size_t>(-1)


----------------------------------------------------------------------------
(* BinaryHeap (heap.hpp).  Positions are 0-based as in the code; the         *)
(* sequence items is 1-based, so position p is items[p + 1].  A write through *)
(* position_ref_ lands in the heap_idx field of the entry that owns it.       *)

HeapItem(v, r) == [val |-> v, ref |-> r]

parent(i) == ((i + 1) \div 2) - 1
left_child(i) == i * 2 + 1
right_child(i) == i * 2 + 2

\* compare_ : std::less<uint64_t>
compare_(a, b) == a < b

\* faulty variant: the position is never written through the reference
SetPositionRef_skipped(d, item, pos) == d

\* if (items_[pos].position_ref_) *items_[pos].position_ref_ = pos;
SetPositionRef(d, item, pos) ==
    IF item.ref # NULL /\ d[item.ref].type # "None"
    THEN [d EXCEPT ![item.ref].heap_idx = pos]
    ELSE d

RECURSIVE sift_up_loop(_, _, _, _)
sift_up_loop(items, d, pos, temp) ==
    IF pos > 0 /\ compare_(temp.val, items[parent(pos) + 1].val)
    THEN LET moved == items[parent(pos) + 1]
         IN  sift_up_loop([items EXCEPT ![pos + 1] = moved],
                          SetPositionRef(d, moved, pos), parent(pos), temp)
    ELSE [items |-> [items EXCEPT ![pos + 1] = temp],
          db |-> SetPositionRef(d, temp, pos)]

sift_up(items, d, pos) == sift_up_loop(items, d, pos, items[pos + 1])

RECURSIVE sift_down_loop(_, _, _, _)
sift_down_loop(items, d, pos, temp) ==
    LET len == Len(items)
        left == left_child(pos)
        right == right_child(pos)
        min1 == IF left < len /\ compare_(items[left + 1].val, temp.val)
                THEN left ELSE pos
        min_pos == IF right < len
                      /\ compare_(items[right + 1].val,
                                  IF min1 = pos THEN temp.val ELSE items[min1 + 1].val)
                   THEN right ELSE min1
    IN  IF min_pos = pos
        THEN [items |-> [items EXCEPT ![pos + 1] = temp],
              db |-> SetPositionRef(d, temp, pos)]
        ELSE LET moved == items[min_pos + 1]
             IN  sift_down_loop([items EXCEPT ![pos + 1] = moved],
                                SetPositionRef(d, moved, pos), min_pos, temp)

sift_down(items, d, pos) == sift_down_loop(items, d, pos, items[pos + 1])

\* BinaryHeap::push
push(items, d, item) ==
    LET appended == Append(items, item)
    IN  sift_up(appended, d, Len(appended) - 1)

\* BinaryHeap::pop (callers never call it on an empty heap)
pop(items, d) ==
    IF Len(items) > 1
    THEN LET moved == [i \in 1..(Len(items) - 1) |->
                          IF i = 1 THEN items[Len(items)] ELSE items[i]]
         IN  sift_down(moved, d, 0)
    ELSE [items |-> <<>>, db |-> d]

\* an update that only ever sifts down
update_sifts_down_only(items, d, pos) ==
    sift_down(items, d, pos)

\* BinaryHeap::update (callers pass pos < size)
update(items, d, pos) ==
    IF pos > 0 /\ compare_(items[pos + 1].val, items[parent(pos) + 1].val)
    THEN sift_up(items, d, pos)
    ELSE sift_down(items, d, pos)


----------------------------------------------------------------------------
(* EntryManager (entry_manager.hpp).  An entry is named by its key k; the   *)
(* operators take the heap items and the key index d and return both.       *)

\* std::swap(heap[pos], heap[heap.size() - 1])
SwapItems(items, i, j) ==
    [items EXCEPT ![i + 1] = items[j + 1], ![j + 1] = items[i + 1]]

remove_from_heap(items, d, k) ==
    LET pos == d[k].heap_idx
    IN  IF pos >= Len(items)
        THEN [items |-> items, db |-> d]
        ELSE LET swapped == IF pos # Len(items) - 1
                            THEN SwapItems(items, pos, Len(items) - 1)
                            ELSE items
                 popped == pop(swapped, d)
                 fixed == IF pos < Len(popped.items)
                          THEN update(popped.items, popped.db, pos)
                          ELSE popped
             IN  [items |-> fixed.items,
                  db |-> [fixed.db EXCEPT ![k].heap_idx = NONE]]

add_to_heap(items, d, k, expire_at) ==
    LET pushed == push(items, d, HeapItem(expire_at, k))
        last == Len(pushed.items) - 1
        stored == [pushed.db EXCEPT ![k].heap_idx = last]
    IN  update(pushed.items, stored, last)

update_heap(items, d, k, new_expire_at) ==
    IF d[k].heap_idx >= Len(items)
    THEN [items |-> items, db |-> d]
    ELSE update([items EXCEPT ![d[k].heap_idx + 1].val = new_expire_at],
                d, d[k].heap_idx)

set_entry_ttl(items, d, k, ttl_ms, t) ==
    IF ttl_ms <= 0
    THEN IF d[k].heap_idx # NONE
         THEN remove_from_heap(items, d, k)
         ELSE [items |-> items, db |-> d]
    ELSE LET expire_at == t + ttl_ms * 1000
         IN  IF d[k].heap_idx = NONE
             THEN add_to_heap(items, d, k, expire_at)
             ELSE update_heap(items, d, k, expire_at)


----------------------------------------------------------------------------
(* AVLTree<std::string, double> (avl.hpp), seen through its public          *)
(* operations: the tree is the set of <<key, value>> pairs it stores, one   *)
(* per key; its in-order traversal lists the keys in ascending byte order.  *)

\* byte-wise std::string order of the names of the model
NameRank(n) ==
    CASE n = "" -> 0 [] n = "a" -> 1 [] n = "b" -> 2 [] n = "c" -> 3 [] n = "d" -> 4

EmptyTree == {}

\* AVLTree::exists / search
AVL_exists(tree, key) == \E p \in tree : p[1] = key

\* AVLTree::del
AVL_del(tree, key) == {p \in tree : p[1] # key}

\* AVLTree::set : update the value of an existing key, else insert
AVL_set(tree, key, value) == AVL_del(tree, key) \cup {<<key, value>>}

\* AVLTree::get on a key that exists
AVL_get(tree, key) == (CHOOSE p \in tree : p[1] = key)[2]

RECURSIVE SortByRank(_)
SortByRank(S) ==
    IF S = {} THEN <<>>
    ELSE LET m == CHOOSE x \in S : \A y \in S : NameRank(x) <= NameRank(y)
         IN  <<m>> \o SortByRank(S \ {m})

\* the keys of the tree in in-order
InOrder(tree) == SortByRank({p[1] : p \in tree})

----------------------------------------------------------------------------
(* AVLTree (avl.hpp), node by node.  A unique_ptr<AVLNode> is a sequence:   *)
(* <<>> for the null pointer, <<n>> for a node n = [key, value, depth,      *)
(* weight, left, right, parent, addr].  addr is the address of the node, a  *)
(* positive number; parent holds an address, 0 for the null pointer, or     *)
(* Freed for the address of a node that has been destroyed.  The code       *)
(* compares no addresses, so the nodes are renamed after each operation:    *)
(* each node takes the key it holds as its address.                         *)

Freed == 0 - 1

\* std::make_unique<AVLNode<K, V>>(key, value), the node being placed at a
AVLNode(k, v, a) ==
    <<[key |-> k, value |-> v, depth |-> 1, weight |-> 1,
       left |-> <<>>, right |-> <<>>, parent |-> 0, addr |-> a]>>

\* child->parent = a, for a child that is not null
SetParent(child, a) ==
    IF child = <<>> THEN child ELSE <<[child[1] EXCEPT !.parent = a]>>

getDepth(node) == IF node = <<>> THEN 0 ELSE node[1].depth

getWeight(node) == IF node = <<>> THEN 0 ELSE node[1].weight

updateNode(node) ==
    IF node = <<>> THEN node
    ELSE LET l == getDepth(node[1].left)
             r == getDepth(node[1].right)
         IN  <<[node[1] EXCEPT
                  !.depth = 1 + (IF l > r THEN l ELSE r),
                  !.weight = 1 + getWeight(node[1].left) + getWeight(node[1].right)]>>

rotateLeft(node) ==
    IF node = <<>> \/ node[1].right = <<>> THEN node
    ELSE LET newRoot == node[1].right
             lowered == updateNode(<<[node[1] EXCEPT
                                        !.right = SetParent(newRoot[1].left, node[1].addr),
                                        !.parent = newRoot[1].addr]>>)
         IN  updateNode(<<[newRoot[1] EXCEPT !.left = lowered,
                                             !.parent = node[1].parent]>>)

rotateRight(node) ==
    IF node = <<>> \/ node[1].left = <<>> THEN node
    ELSE LET newRoot == node[1].left
             lowered == updateNode(<<[node[1] EXCEPT
                                        !.left = SetParent(newRoot[1].right, node[1].addr),
                                        !.parent = newRoot[1].addr]>>)
         IN  updateNode(<<[newRoot[1] EXCEPT !.right = lowered,
                                             !.parent = node[1].parent]>>)

fixLeft(node) ==
    IF node = <<>> \/ node[1].left = <<>> THEN node
    ELSE IF getDepth(node[1].left[1].right) > getDepth(node[1].left[1].left)
    THEN rotateRight(<<[node[1] EXCEPT !.left = rotateLeft(node[1].left)]>>)
    ELSE rotateRight(node)

fixRight(node) ==
    IF node = <<>> \/ node[1].right = <<>> THEN node
    ELSE IF getDepth(node[1].right[1].left) > getDepth(node[1].right[1].right)
    THEN rotateLeft(<<[node[1] EXCEPT !.right = rotateRight(node[1].right)]>>)
    ELSE rotateLeft(node)

\* faulty variant: the depths and weights are refreshed but no rotation is made
fix_without_rotation(node) == updateNode(node)

fix(node) ==
    IF node = <<>> THEN node
    ELSE LET updated == updateNode(node)
             leftDepth == getDepth(updated[1].left)
             rightDepth == getDepth(updated[1].right)
         IN  IF leftDepth > rightDepth + 1 THEN fixLeft(updated)
             ELSE IF rightDepth > leftDepth + 1 THEN fixRight(updated)
             ELSE updated

\* the loop of remove that finds the in-order successor: the leftmost node of
\* the right subtree
RECURSIVE successor(_)
successor(node) ==
    IF node[1].left = <<>> THEN node[1] ELSE successor(node[1].left)

RECURSIVE remove(_, _)
remove(node, key) ==
    IF node = <<>> THEN node
    ELSE IF key < node[1].key
    THEN fix(<<[node[1] EXCEPT !.left = remove(node[1].left, key)]>>)
    ELSE IF key > node[1].key
    THEN fix(<<[node[1] EXCEPT !.right = remove(node[1].right, key)]>>)
    ELSE IF node[1].left = <<>> THEN node[1].right
    ELSE IF node[1].right = <<>> THEN node[1].left
    ELSE LET succ == successor(node[1].right)
         IN  fix(<<[node[1] EXCEPT !.key = succ.key,
                                   !.value = succ.value,
                                   !.right = remove(node[1].right, succ.key)]>>)

\* insert, a being the address at which a new node is placed
RECURSIVE insert(_, _, _, _)
insert(node, key, value, a) ==
    IF node = <<>> THEN AVLNode(key, value, a)
    ELSE IF key < node[1].key
    THEN fix(<<[node[1] EXCEPT
                  !.left = SetParent(insert(node[1].left, key, value, a),
                                     node[1].addr)]>>)
    ELSE IF key > node[1].key
    THEN fix(<<[node[1] EXCEPT
                  !.right = SetParent(insert(node[1].right, key, value, a),
                                      node[1].addr)]>>)
    ELSE node

\* AVLTree::search : the node found, or <<>>
RECURSIVE search(_, _)
search(node, key) ==
    IF node = <<>> THEN node
    ELSE IF key = node[1].key THEN node
    ELSE IF key < node[1].key THEN search(node[1].left, key)
    ELSE search(node[1].right, key)

\* node->value = value on the node search found
RECURSIVE assign_value(_, _, _)
assign_value(node, key, value) ==
    IF key = node[1].key THEN <<[node[1] EXCEPT !.value = value]>>
    ELSE IF key < node[1].key
    THEN <<[node[1] EXCEPT !.left = assign_value(node[1].left, key, value)]>>
    ELSE <<[node[1] EXCEPT !.right = assign_value(node[1].right, key, value)]>>

\* the addresses of the nodes of a tree
RECURSIVE Addrs(_)
Addrs(node) ==
    IF node = <<>> THEN {}
    ELSE {node[1].addr} \cup Addrs(node[1].left) \cup Addrs(node[1].right)

\* the key held by the node of address a
RECURSIVE KeyAt(_, _)
KeyAt(node, a) ==
    IF node = <<>> THEN Freed
    ELSE IF node[1].addr = a THEN node[1].key
    ELSE IF KeyAt(node[1].left, a) # Freed THEN KeyAt(node[1].left, a)
    ELSE KeyAt(node[1].right, a)

\* the tree node with every address replaced by the key of the node of root
\* that has the address; the address of a destroyed node becomes Freed
RECURSIVE Renamed(_, _)
Renamed(node, root) ==
    IF node = <<>> THEN node
    ELSE <<[node[1] EXCEPT
              !.addr = node[1].key,
              !.parent = IF node[1].parent \in {0, Freed} THEN node[1].parent
                         ELSE KeyAt(root, node[1].parent),
              !.left = Renamed(node[1].left, root),
              !.right = Renamed(node[1].right, root)]>>

\* AVLTree::set on the tree of root root
AVLTree_set(root, key, value) ==
    IF search(root, key) # <<>> THEN assign_value(root, key, value)
    ELSE LET placed == insert(root, key, value, key)
         IN  Renamed(placed, placed)

\* AVLTree::del
AVLTree_del(root, key) ==
    IF root # <<>>
    THEN LET kept == remove(root, key) IN Renamed(kept, kept)
    ELSE root

----------------------------------------------------------------------------
(* ZSet (src/zset.hpp).  hash maps a name to the ZNode it points to; the    *)
(* node's score lives in the node, so hash is the set of <<name, score>>    *)
(* pairs of the nodes it points to.  tree is the AVLTree keyed by name.     *)
(* alloc tells an allocated ZSet from the null unique_ptr of an entry.      *)

NewZSet == [alloc |-> TRUE, hash |-> {}, tree |-> EmptyTree]
NullZSet == [alloc |-> FALSE, hash |-> {}, tree |-> EmptyTree]

\* HMap::find on the hash of a ZSet
InHash(zs, name) == \E p \in zs.hash : p[1] = name

\* ZNode::get_value of the node the hash holds for name
ScoreOf(zs, name) == (CHOOSE p \in zs.hash : p[1] = name)[2]

\* ZSet::lookup : the node (here its name), or NULL
lookup(zs, name) == IF InHash(zs, name) THEN name ELSE NULL

\* ZSet::update_score
update_score(zs, node, new_score) ==
    IF node = NULL \/ node = "" \/ ~InHash(zs, node)
    THEN zs
    ELSE [zs EXCEPT !.hash = {p \in zs.hash : p[1] # node}
                                \cup {<<node, new_score>>},
                    !.tree = AVL_set(AVL_del(zs.tree, node), node, new_score)]

\* ZSet::add_internal : [zs |-> the set afterwards, ret |-> the value returned]
add_internal(zs, name, score) ==
    IF lookup(zs, name) # NULL
    THEN [zs |-> update_score(zs, lookup(zs, name), score), ret |-> FALSE]
    ELSE IF name = ""
         THEN [zs |-> zs, ret |-> FALSE]
         ELSE [zs |-> [zs EXCEPT !.hash = zs.hash \cup {<<name, score>>},
                                 !.tree = AVL_set(zs.tree, name, score)],
               ret |-> TRUE]

\* faulty variant: the node is taken out of the hash and left in the tree
pop_internal_keeps_tree(zs, name) ==
    IF ~InHash(zs, name)
    THEN [zs |-> zs, ret |-> NULL]
    ELSE [zs |-> [zs EXCEPT !.hash = {p \in zs.hash : p[1] # name}],
          ret |-> name]

\* ZSet::pop_internal : [zs, ret |-> the node removed or NULL]
pop_internal(zs, name) ==
    IF ~InHash(zs, name)
    THEN [zs |-> zs, ret |-> NULL]
    ELSE [zs |-> [zs EXCEPT !.hash = {p \in zs.hash : p[1] # name},
                            !.tree = AVL_del(zs.tree, name)],
          ret |-> name]

\* ZSet::query(score, name, offset) : the node the query starts at, or NULL
query(zs, score, name, offset) ==
    IF AVL_exists(zs.tree, name) THEN lookup(zs, name) ELSE NULL

----------------------------------------------------------------------------
(* Strings that the code inspects character by character (the verb and the  *)
(* numeric arguments) are sequences of one-character strings; keys, values  *)
(* and member names are only compared and stored, and are plain strings.    *)

UpperChars == <<"A","B","C","D","E","F","G","H","I","J","K","L","M",
                "N","O","P","Q","R","S","T","U","V","W","X","Y","Z">>
LowerChars == <<"a","b","c","d","e","f","g","h","i","j","k","l","m",
                "n","o","p","q","r","s","t","u","v","w","x","y","z">>

\* ::tolower on one character
tolower(c) ==
    IF \E i \in DOMAIN UpperChars : UpperChars[i] = c
    THEN LowerChars[CHOOSE i \in DOMAIN UpperChars : UpperChars[i] = c]
    ELSE c

\* std::transform(command_key.begin(), command_key.end(), ..., ::tolower)
to_lower(str) == [i \in DOMAIN str |-> tolower(str[i])]

isdigit(c) == c \in {"0","1","2","3","4","5","6","7","8","9"}
DigitVal(c) ==
    CASE c = "0" -> 0 [] c = "1" -> 1 [] c = "2" -> 2 [] c = "3" -> 3
      [] c = "4" -> 4 [] c = "5" -> 5 [] c = "6" -> 6 [] c = "7" -> 7
      [] c = "8" -> 8 [] c = "9" -> 9

\* number of white-space characters from index i on
RECURSIVE SpaceRun(_, _)
SpaceRun(str, i) ==
    IF i <= Len(str) /\ str[i] = " " THEN 1 + SpaceRun(str, i + 1) ELSE 0

\* number of decimal digits from index i on
RECURSIVE DigitRun(_, _)
DigitRun(str, i) ==
    IF i <= Len(str) /\ isdigit(str[i]) THEN 1 + DigitRun(str, i + 1) ELSE 0

\* value of the n digits that start at index i, most significant first
RECURSIVE DigitsValue(_, _, _, _)
DigitsValue(str, i, n, acc) ==
    IF n = 0 THEN acc
    ELSE DigitsValue(str, i + 1, n - 1, acc * 10 + DigitVal(str[i]))

\* std::stoll(str, &pos): white space, an optional sign, decimal digits.
\* ok is FALSE where the library throws std::invalid_argument.
stoll(str) ==
    LET ws == SpaceRun(str, 1)
        sign == IF ws + 1 <= Len(str) /\ str[ws + 1] \in {"-", "+"} THEN 1 ELSE 0
        run == DigitRun(str, ws + sign + 1)
        mag == DigitsValue(str, ws + sign + 1, run, 0)
    IN  IF run = 0
        THEN [ok |-> FALSE, val |-> 0, pos |-> 0]
        ELSE [ok |-> TRUE,
              val |-> IF sign = 1 /\ str[ws + 1] = "-" THEN 0 - mag ELSE mag,
              pos |-> ws + sign + run]

\* std::stod(str, &pos) on the spellings the model feeds it: a signed run of
\* digits, or "nan" (nan is TRUE when the value read is not a number)
stod(str) ==
    LET ws == SpaceRun(str, 1)
        sign == IF ws + 1 <= Len(str) /\ str[ws + 1] \in {"-", "+"} THEN 1 ELSE 0
        from == ws + sign + 1
    IN  IF from + 2 <= Len(str)
           /\ to_lower(SubSeq(str, from, from + 2)) = <<"n", "a", "n">>
        THEN [ok |-> TRUE, val |-> 0, pos |-> from + 2, nan |-> TRUE]
        ELSE [ok |-> stoll(str).ok, val |-> stoll(str).val,
              pos |-> stoll(str).pos, nan |-> FALSE]

parse_double(str) ==
    LET r == stod(str)
    IN  [ok |-> r.ok /\ r.pos = Len(str) /\ ~r.nan, val |-> r.val]

parse_int(str) ==
    LET r == stoll(str)
    IN  [ok |-> r.ok /\ r.pos = Len(str), val |-> r.val]

----------------------------------------------------------------------------
(* ResponseSerializer: a reply is the sequence of tokens written.           *)

NilTok == [t |-> "Nil"]
ErrTok(code) == [t |-> "Err", code |-> code]
StrTok(str) == [t |-> "Str", s |-> str]
IntTok(v) == [t |-> "Int", v |-> v]
DblTok(v) == [t |-> "Dbl", v |-> v]
ArrTok(n) == [t |-> "Arr", n |-> n]

serialize_nil(out) == Append(out, NilTok)
serialize_error(out, code) == Append(out, ErrTok(code))
serialize_string(out, str) == Append(out, StrTok(str))
serialize_integer(out, v) == Append(out, IntTok(v))
serialize_double(out, v) == Append(out, DblTok(v))
serialize_array(out, n) == Append(out, ArrTok(n))

----------------------------------------------------------------------------
(* The key index.  lookup_entry and get_or_create_entry are called by the   *)
(* handlers but defined in no source file; they follow the key index of the *)
(* specification.  The kind a fresh entry starts with is fixed nowhere (SET *)
(* and the tests assign it after creation), so it is an input, fresh.       *)

EntryTypes == {"String", "ZSet"}

NewEntry(fresh) ==
    [type |-> fresh, value |-> "", zset |-> NullZSet, heap_idx |-> NONE]

\* what the key index holds for a key it does not contain
NoEntry == [type |-> "None", value |-> "", zset |-> NullZSet, heap_idx |-> NONE]

lookup_entry(d, key) == d[key]

get_or_create_entry(d, key, fresh) ==
    IF d[key] # NoEntry
    THEN [db |-> d, created |-> FALSE]
    ELSE [db |-> [d EXCEPT ![key] = NewEntry(fresh)], created |-> TRUE]

\* ZSet::query(score, name, offset, limit), called by handle_zquery: from the
\* node that query(score, name, offset) finds, walk the tree in order and
\* collect at most limit (name, score) pairs
query_range(zs, score, name, offset, limit) ==
    LET start == query(zs, score, name, offset)
        order == InOrder(zs.tree)
    IN  IF start = NULL THEN <<>>
        ELSE LET first == CHOOSE i \in DOMAIN order : order[i] = start
                 last == IF first + limit - 1 < Len(order)
                         THEN first + limit - 1 ELSE Len(order)
             IN  [i \in 1..(last - first + 1) |->
                    [name |-> order[first + i - 1],
                     score |-> ScoreOf(zs, order[first + i - 1])]]

----------------------------------------------------------------------------
(* CommandProcessor (command_processor.hpp).  A handler takes the argument  *)
(* vector a, the key index d, the heap items h and the clock reading t, and *)
(* returns [db, heap, out]: the state afterwards and the tokens written.    *)

Reply(d, h, out) == [db |-> d, heap |-> h, out |-> out]

\* A definition marked "faulty variant" is the definition that follows it with
\* one step wrong; a property that tells the two apart is sensitive to that
\* step.

\* faulty variant: GET that does not look at the kind of the entry
handle_get_any_type(a, d, h) ==
    IF Len(a) # 2 THEN Reply(d, h, serialize_error(<<>>, ERR_ARG))
    ELSE LET entry == lookup_entry(d, a[2])
         IN  IF entry = NoEntry THEN Reply(d, h, serialize_nil(<<>>))
             ELSE Reply(d, h, serialize_string(<<>>, entry.value))

handle_get(a, d, h) ==
    IF Len(a) # 2 THEN Reply(d, h, serialize_error(<<>>, ERR_ARG))
    ELSE LET entry == lookup_entry(d, a[2])
         IN  IF entry = NoEntry THEN Reply(d, h, serialize_nil(<<>>))
             ELSE IF entry.type # "String"
                  THEN Reply(d, h, serialize_error(<<>>, ERR_TYPE))
                  ELSE Reply(d, h, serialize_string(<<>>, entry.value))

\* faulty variant: SET that acknowledges without storing the value
handle_set_keeps_value(a, d, h, fresh) ==
    IF Len(a) # 3 THEN Reply(d, h, serialize_error(<<>>, ERR_ARG))
    ELSE LET got == get_or_create_entry(d, a[2], fresh)
         IN  IF ~got.created /\ got.db[a[2]].type # "String"
             THEN Reply(got.db, h, serialize_error(<<>>, ERR_TYPE))
             ELSE Reply([got.db EXCEPT ![a[2]].type = "String"],
                        h, serialize_nil(<<>>))

handle_set(a, d, h, fresh) ==
    IF Len(a) # 3 THEN Reply(d, h, serialize_error(<<>>, ERR_ARG))
    ELSE LET got == get_or_create_entry(d, a[2], fresh)
         IN  IF ~got.created /\ got.db[a[2]].type # "String"
             THEN Reply(got.db, h, serialize_error(<<>>, ERR_TYPE))
             ELSE Reply([got.db EXCEPT ![a[2]].type = "String",
                                       ![a[2]].value = a[3]],
                        h, serialize_nil(<<>>))

\* faulty variant: ZADD that creates the entry before it validates the score
handle_zadd_creates_first(a, d, h, fresh) ==
    IF Len(a) # 4 THEN Reply(d, h, serialize_error(<<>>, ERR_ARG))
    ELSE LET got == get_or_create_entry(d, a[2], fresh)
         IN  IF ~parse_double(a[3]).ok
             THEN Reply(got.db, h, serialize_error(<<>>, ERR_ARG))
             ELSE IF ~got.created /\ got.db[a[2]].type # "ZSet"
             THEN Reply(got.db, h, serialize_error(<<>>, ERR_TYPE))
             ELSE LET zs == IF ~got.db[a[2]].zset.alloc
                            THEN NewZSet ELSE got.db[a[2]].zset
                      added == add_internal(zs, a[4], parse_double(a[3]).val)
                  IN  Reply([got.db EXCEPT ![a[2]].zset = added.zs], h,
                            serialize_integer(<<>>, IF added.ret THEN 1 ELSE 0))

handle_zadd(a, d, h, fresh) ==
    IF Len(a) # 4 THEN Reply(d, h, serialize_error(<<>>, ERR_ARG))
    ELSE IF ~parse_double(a[3]).ok
    THEN Reply(d, h, serialize_error(<<>>, ERR_ARG))
    ELSE LET score == parse_double(a[3]).val
             got == get_or_create_entry(d, a[2], fresh)
         IN  IF ~got.created /\ got.db[a[2]].type # "ZSet"
             THEN Reply(got.db, h, serialize_error(<<>>, ERR_TYPE))
             ELSE LET zs == IF ~got.db[a[2]].zset.alloc
                            THEN NewZSet ELSE got.db[a[2]].zset
                      added == add_internal(zs, a[4], score)
                  IN  Reply([got.db EXCEPT ![a[2]].zset = added.zs], h,
                            serialize_integer(<<>>, IF added.ret THEN 1 ELSE 0))

RECURSIVE serialize_results(_, _, _)
serialize_results(out, results, i) ==
    IF i > Len(results) THEN out
    ELSE serialize_results(
            serialize_double(serialize_string(out, results[i].name),
                             results[i].score),
            results, i + 1)

handle_zquery(a, d, h) ==
    IF Len(a) # 6 THEN Reply(d, h, serialize_error(<<>>, ERR_ARG))
    ELSE IF ~parse_double(a[3]).ok
    THEN Reply(d, h, serialize_error(<<>>, ERR_ARG))
    ELSE IF \/ ~parse_int(a[5]).ok
            \/ ~parse_int(a[6]).ok
            \/ parse_int(a[5]).val < 0
            \/ parse_int(a[6]).val <= 0
    THEN Reply(d, h, serialize_error(<<>>, ERR_ARG))
    ELSE LET entry == lookup_entry(d, a[2])
         IN  IF entry = NoEntry THEN Reply(d, h, serialize_array(<<>>, 0))
             ELSE IF entry.type # "ZSet" \/ ~entry.zset.alloc
             THEN Reply(d, h, serialize_error(<<>>, ERR_TYPE))
             ELSE LET results == query_range(entry.zset, parse_double(a[3]).val,
                                             a[4], parse_int(a[5]).val,
                                             parse_int(a[6]).val)
                  IN  Reply(d, h,
                            serialize_results(
                                serialize_array(<<>>, Len(results) * 2),
                                results, 1))

handle_pexpire(a, d, h, t) ==
    IF Len(a) # 3 THEN Reply(d, h, serialize_error(<<>>, ERR_ARG))
    ELSE IF ~parse_int(a[3]).ok \/ parse_int(a[3]).val < 0
    THEN Reply(d, h, serialize_error(<<>>, ERR_ARG))
    ELSE IF lookup_entry(d, a[2]) = NoEntry
    THEN Reply(d, h, serialize_integer(<<>>, 0))
    ELSE LET r == set_entry_ttl(h, d, a[2], parse_int(a[3]).val, t)
         IN  Reply(r.db, r.items, serialize_integer(<<>>, 1))

handle_pttl(a, d, h, t) ==
    IF Len(a) # 2 THEN Reply(d, h, serialize_error(<<>>, ERR_ARG))
    ELSE LET entry == lookup_entry(d, a[2])
         IN  IF entry = NoEntry THEN Reply(d, h, serialize_integer(<<>>, -2))
             ELSE IF entry.heap_idx = NONE \/ entry.heap_idx >= Len(h)
             THEN Reply(d, h, serialize_integer(<<>>, -1))
             ELSE LET expire_at == h[entry.heap_idx + 1].val
                      ttl == IF expire_at > t
                             THEN (expire_at - t) \div 1000 ELSE 0
                  IN  Reply(d, h, serialize_integer(<<>>, ttl))

\* the verbs of command_handlers
VerbGet == <<"g", "e", "t">>
VerbSet == <<"s", "e", "t">>
VerbZadd == <<"z", "a", "d", "d">>
VerbZquery == <<"z", "q", "u", "e", "r", "y">>
VerbPexpire == <<"p", "e", "x", "p", "i", "r", "e">>
VerbPttl == <<"p", "t", "t", "l">>

process_command(a, d, h, t, fresh) ==
    IF a = <<>> THEN Reply(d, h, serialize_error(<<>>, ERR_ARG))
    ELSE LET command_key == to_lower(a[1])
         IN  CASE command_key = VerbGet -> handle_get(a, d, h)
               [] command_key = VerbSet -> handle_set(a, d, h, fresh)
               [] command_key = VerbZadd -> handle_zadd(a, d, h, fresh)
               [] command_key = VerbZquery -> handle_zquery(a, d, h)
               [] command_key = VerbPexpire -> handle_pexpire(a, d, h, t)
               [] command_key = VerbPttl -> handle_pttl(a, d, h, t)
               [] OTHER -> Reply(d, h, serialize_error(<<>>, ERR_UNKNOWN))

----------------------------------------------------------------------------
(* The command processor as a state machine: one request at a time is       *)
(* handled against the key index and the TTL heap, under db_mutex.          *)

Scores == {<<"1">>, <<"2">>}
CmdNames == {"a"}
TtlArgs == {<<"0">>, <<"1">>, <<"2">>, <<"-", "1">>}
OffsetArgs == {<<"0">>, <<"-", "1">>}
LimitArgs == {<<"1">>, <<"0">>}

\* requests with a wrong argument count, an unparseable number, no verb or
\* an unknown verb
BadRequests ==
    { <<>>,
      <<(<<"d", "e", "l">>), "k1">>,
      <<VerbGet>>,
      <<VerbSet, "k1">>,
      <<VerbZadd, "k1", (<<"1">>)>>,
      <<VerbZadd, "k1", (<<"x">>), "a">>,
      <<VerbZadd, "k2", (<<"n", "a", "n">>), "a">>,
      <<VerbZquery, "k1">>,
      <<VerbZquery, "k1", (<<"x">>), "a", (<<"0">>), (<<"1">>)>>,
      <<VerbZquery, "k1", (<<"1">>), "a", (<<"0">>), (<<"1", "x">>)>>,
      <<VerbPexpire, "k1">>,
      <<VerbPexpire, "k1", (<<"x">>)>>,
      <<VerbPexpire, "k2", (<<"1", "x">>)>>,
      <<VerbPttl>> }

\* lastTTL of a key with no expiry asked for
NoTTL == -1

\* no call made on zset yet
NoCall ==
    [op |-> "none", name |-> "", score |-> 0, offset |-> 0, limit |-> 0,
     ret |-> FALSE, rows |-> <<>>]

\* Connection::Connection
NewConnection ==
    [state_ |-> "Request", rbuf_ |-> <<>>, wbuf_ |-> <<>>, wbuf_sent_ |-> 0]

InitConn ==
    /\ conn = NewConnection
    /\ sock_in = <<>>
    /\ sock_out = <<>>
    /\ peer_closed = FALSE
    /\ fate = "running"
    /\ sent = <<>>
    /\ executed = <<>>
    /\ seen = 0
    /\ ndebug \in BOOLEAN

\* what the client was told: SET acknowledged, PEXPIRE acknowledged
NoteSet(a, out) ==
    IF a # <<>> /\ to_lower(a[1]) = VerbSet /\ Len(a) = 3 /\ out = <<NilTok>>
    THEN [lastSet EXCEPT ![a[2]] = a[3]]
    ELSE lastSet

NoteTTL(a, out, t) ==
    IF a # <<>> /\ to_lower(a[1]) = VerbPexpire /\ Len(a) = 3
       /\ out = <<IntTok(1)>>
    THEN [lastTTL EXCEPT ![a[2]] =
            IF parse_int(a[3]).val > 0
            THEN t + parse_int(a[3]).val * 1000 ELSE NoTTL]
    ELSE lastTTL

\* one request: process_command runs on a, the reply replaces response
Request(a, fresh) ==
    \E r \in {process_command(a, db, heap, now, fresh)} :
        /\ args' = a
        /\ db' = r.db
        /\ heap' = r.heap
        /\ response' = r.out
        /\ lastSet' = NoteSet(a, r.out)
        /\ lastTTL' = NoteTTL(a, r.out, now)
        /\ UNCHANGED <<zsetVars, connVars, moreVars>>

Get == \E k \in Keys, v \in {VerbGet, <<"G", "E", "T">>} :
          /\ Request(<<v, k>>, "String")
          /\ UNCHANGED now

Set(values) == \E k \in Keys, v \in values, fresh \in EntryTypes :
          /\ Request(<<VerbSet, k, v>>, fresh)
          /\ UNCHANGED now

Zadd == \E k \in Keys, sc \in Scores, n \in CmdNames, fresh \in EntryTypes :
          /\ Request(<<VerbZadd, k, sc, n>>, fresh)
          /\ UNCHANGED now

Zquery == \E k \in Keys, n \in CmdNames, offset \in OffsetArgs, limit \in LimitArgs :
          /\ Request(<<VerbZquery, k, (<<"1">>), n, offset, limit>>, "String")
          /\ UNCHANGED now

Pexpire(ttls) == \E k \in Keys, ttl \in ttls :
          /\ Request(<<VerbPexpire, k, ttl>>, "String")
          /\ UNCHANGED now

Pttl == \E k \in Keys :
          /\ Request(<<VerbPttl, k>>, "String")
          /\ UNCHANGED now

Bad == \E a \in BadRequests :
          /\ Request(a, "String")
          /\ UNCHANGED now

\* time passes between two requests
Tick ==
    /\ now + TickUs <= MaxNow
    /\ now' = now + TickUs
    /\ UNCHANGED <<db, heap, args, response, lastSet, lastTTL, zsetVars,
                   connVars, moreVars>>

\* the verbs against each other, at one clock reading
NextCmd ==
    Get \/ Set(Vals) \/ Zadd \/ Zquery \/ Pexpire({<<"1">>}) \/ Pttl \/ Bad

\* the TTL verbs on string entries, as time passes
NextTtl == Set({"v1"}) \/ Pexpire(TtlArgs) \/ Pttl \/ Tick

----------------------------------------------------------------------------
(* A ZSet on its own: members are added, removed and queried.               *)

ZScores == 1..MaxScore
QueryScores == {1, 2}
Offsets == {0, 1}
Limits == {1, 10}

\* ZSet::add
ZAdd ==
    \E name \in Names, score \in ZScores :
      \E r \in {add_internal(zset, name, score)} :
        /\ zset' = r.zs
        /\ zcall' = [NoCall EXCEPT !.op = "add", !.name = name,
                                   !.score = score, !.ret = r.ret]
        /\ UNCHANGED <<cmdVars, connVars, moreVars>>

\* ZSet::pop
ZPop ==
    \E name \in Names :
      \E r \in {pop_internal(zset, name)} :
        /\ zset' = r.zs
        /\ zcall' = [NoCall EXCEPT !.op = "pop", !.name = name,
                                   !.ret = (r.ret # NULL)]
        /\ UNCHANGED <<cmdVars, connVars, moreVars>>

\* ZSet::query, as handle_zquery calls it
ZQuery ==
    \E name \in Names, score \in QueryScores, offset \in Offsets, limit \in Limits :
        /\ zcall' = [NoCall EXCEPT !.op = "query", !.name = name,
                        !.score = score, !.offset = offset, !.limit = limit,
                        !.rows = query_range(zset, score, name, offset, limit)]
        /\ UNCHANGED <<zset, cmdVars, connVars, moreVars>>

NextZSet == ZAdd \/ ZPop \/ ZQuery

----------------------------------------------------------------------------
(* The wire format and RequestParser (request_parser.hpp).  A byte is a     *)
(* number in 0..255, a buffer a sequence of bytes; offsets are 0-based.     *)

Min(a, b) == IF a < b THEN a ELSE b

\* a uint32_t as memcpy lays it out on a little-endian machine
LE32(n) ==
    <<n % 256, (n \div 256) % 256, (n \div 65536) % 256, (n \div 16777216) % 256>>

\* std::memcpy(&len, data + off, sizeof(uint32_t))
ReadLE32(data, off) ==
    data[off + 1] + 256 * data[off + 2] + 65536 * data[off + 3]
        + 16777216 * data[off + 4]

\* the while loop of RequestParser::parse
RECURSIVE parse_loop(_, _, _, _)
parse_loop(data, pos, end, cmd) ==
    IF pos >= end THEN [ok |-> TRUE, cmd |-> cmd]
    ELSE IF end - pos < 4 THEN [ok |-> FALSE, cmd |-> <<>>]
    ELSE LET str_len == ReadLE32(data, pos)
         IN  IF str_len > end - (pos + 4)
             THEN [ok |-> FALSE, cmd |-> <<>>]
             ELSE parse_loop(data, pos + 4 + str_len, end,
                             Append(cmd, SubSeq(data, pos + 5, pos + 4 + str_len)))

\* RequestParser::parse
parse(data) ==
    IF Len(data) < 4 THEN [ok |-> FALSE, cmd |-> <<>>]
    ELSE LET len == ReadLE32(data, 0)
         IN  IF len > MAX_MSG_SIZE THEN [ok |-> FALSE, cmd |-> <<>>]
             ELSE IF 4 + len > Len(data) THEN [ok |-> FALSE, cmd |-> <<>>]
             ELSE parse_loop(data, 4, 4 + len, <<>>)

\* the bytes of a request as a peer frames it for this parser
RECURSIVE Payload(_)
Payload(req) ==
    IF req = <<>> THEN <<>>
    ELSE LE32(Len(Head(req))) \o Head(req) \o Payload(Tail(req))

Frame(req) == LE32(Len(Payload(req))) \o Payload(req)

----------------------------------------------------------------------------
(* Connection (connection.hpp).  c is the connection, [state_, rbuf_,       *)
(* wbuf_, wbuf_sent_]; an operator returns the connection afterwards, the   *)
(* value returned and what it did to the socket.                            *)

EAGAIN == -1

Zeros(n) == [i \in 1..n |-> 0]

\* std::vector<uint8_t>::resize
resize(buf, n) ==
    IF n <= Len(buf) THEN SubSeq(buf, 1, n) ELSE buf \o Zeros(n - Len(buf))

\* read(fd, buf, count) on the non-blocking socket: what it can return when
\* queue holds the unread bytes and closed tells that the peer shut down
sys_read(count, queue, closed) ==
    IF count = 0
    THEN IF queue # <<>> \/ closed THEN {0} ELSE {EAGAIN}
    ELSE IF queue # <<>> THEN 1..Min(count, Len(queue))
    ELSE IF closed THEN {0} ELSE {EAGAIN}

\* the count try_fill_buffer passes to read:
\*   rbuf_.resize(MAX_MSG_SIZE); capacity = rbuf_.size() - rbuf_.size()
Capacity(c) ==
    Len(resize(c.rbuf_, MAX_MSG_SIZE)) - Len(resize(c.rbuf_, MAX_MSG_SIZE))

\* process_command(cmd, response), the free function the connection calls: it
\* stands for the command processor, which answers every request with one
\* reply; here an Integer token that counts the arguments
process_command_reply(cmd) == <<3, Len(cmd), 0, 0, 0, 0, 0, 0, 0>>

\* Connection::try_process_request : [c, ret, ran], ran the requests run
try_process_request(c) ==
    IF Len(c.rbuf_) < 4 THEN [c |-> c, ret |-> FALSE, ran |-> <<>>]
    ELSE LET parse_result == parse(c.rbuf_)
         IN  IF ~parse_result.ok
             THEN [c |-> [c EXCEPT !.state_ = "End"], ret |-> FALSE, ran |-> <<>>]
             ELSE LET cmd == parse_result.cmd
                      reply == process_command_reply(cmd)
                      consumed == 4 + Len(cmd)
                      rest == IF consumed < Len(c.rbuf_)
                              THEN SubSeq(c.rbuf_, consumed + 1, Len(c.rbuf_))
                              ELSE <<>>
                  IN  [c |-> [state_ |-> "Response",
                              rbuf_ |-> rest,
                              wbuf_ |-> LE32(Len(reply)) \o reply,
                              wbuf_sent_ |-> 0],
                       ret |-> Len(rest) >= 4,
                       ran |-> <<cmd>>]

\* while (try_process_request()) {} : the Result<bool> converts to true
\* whenever it holds a value, so the loop runs on after a pass that returned
\* false; a pass that changes nothing repeats without end.  The operator
\* returns the connection at that point and the requests run before it.
RECURSIVE process_requests(_, _)
process_requests(c, ran) ==
    LET r == try_process_request(c)
    IN  IF r.c = c THEN [c |-> c, ran |-> ran]
        ELSE process_requests(r.c, ran \o r.ran)

\* Connection::try_fill_buffer, rv being what read returned:
\* [c, ret, ran, taken (bytes taken off the socket), hung]
try_fill_buffer(c, rv) ==
    LET resized == [c EXCEPT !.rbuf_ = resize(c.rbuf_, MAX_MSG_SIZE)]
    IN  IF rv < 0
        THEN [c |-> resized, ret |-> FALSE, ran |-> <<>>, taken |-> 0,
              hung |-> FALSE]
        ELSE IF rv = 0
        THEN [c |-> [resized EXCEPT !.state_ = "End"], ret |-> FALSE,
              ran |-> <<>>, taken |-> 0, hung |-> FALSE]
        ELSE LET grown == [resized EXCEPT
                              !.rbuf_ = resize(resized.rbuf_, Len(resized.rbuf_) + rv)]
                 looped == process_requests(grown, <<>>)
             IN  [c |-> looped.c, ret |-> TRUE, ran |-> looped.ran,
                  taken |-> rv, hung |-> TRUE]

\* a handle_request whose loop does not break when try_fill_buffer returns
\* false: it calls try_fill_buffer over and over
handle_request_no_break(c, rv) ==
    [try_fill_buffer(c, rv) EXCEPT !.hung = TRUE]

\* Connection::handle_request : try_fill_buffer is called again only after it
\* returned true
handle_request(c, rv) == try_fill_buffer(c, rv)

\* a try_flush_buffer that does not add what it wrote to wbuf_sent_ when the
\* write fails with EAGAIN
try_flush_buffer_forgets(c, room) ==
    LET remain == Len(c.wbuf_) - c.wbuf_sent_
        n == Min(remain, room)
        out == SubSeq(c.wbuf_, c.wbuf_sent_ + 1, c.wbuf_sent_ + n)
    IN  IF n < remain
        THEN [c |-> c, ret |-> FALSE, out |-> out]
        ELSE [c |-> [c EXCEPT !.state_ = "Request", !.wbuf_sent_ = 0,
                              !.wbuf_ = <<>>],
              ret |-> FALSE, out |-> out]

\* Connection::try_flush_buffer, room being the bytes the socket takes before
\* write fails with EAGAIN: [c, ret, out (the bytes written)]
try_flush_buffer(c, room) ==
    LET remain == Len(c.wbuf_) - c.wbuf_sent_
        n == Min(remain, room)
        out == SubSeq(c.wbuf_, c.wbuf_sent_ + 1, c.wbuf_sent_ + n)
    IN  IF n < remain
        THEN [c |-> [c EXCEPT !.wbuf_sent_ = c.wbuf_sent_ + n],
              ret |-> FALSE, out |-> out]
        ELSE [c |-> [c EXCEPT !.state_ = "Request", !.wbuf_sent_ = 0,
                              !.wbuf_ = <<>>],
              ret |-> FALSE, out |-> out]

\* Connection::handle_response
handle_response(c, room) == try_flush_buffer(c, room)

\* Connection::process_io : [c, ran, taken, out, hung]
process_io(c, rv, room) ==
    CASE c.state_ = "Request" ->
            LET r == handle_request(c, rv)
            IN  [c |-> r.c, ran |-> r.ran, taken |-> r.taken, out |-> <<>>,
                 hung |-> r.hung]
      [] c.state_ = "Response" ->
            LET r == handle_response(c, room)
            IN  [c |-> r.c, ran |-> <<>>, taken |-> 0, out |-> r.out,
                 hung |-> FALSE]
      [] OTHER ->
            [c |-> c, ran |-> <<>>, taken |-> 0, out |-> <<>>, hung |-> FALSE]

----------------------------------------------------------------------------
(* One connection and its peer *)

\* "get" "k", "set" "k" "v" and the request of no argument, as bytes; a
\* request whose frame declares the length MAX_MSG_SIZE and one whose frame
\* declares one byte more
ConnRequests ==
    { <<(<<103, 101, 116>>), (<<107>>)>>,
      <<(<<115, 101, 116>>), (<<107>>), (<<118>>)>>,
      <<>>,
      <<Zeros(MAX_MSG_SIZE - 4)>>,
      <<Zeros(MAX_MSG_SIZE - 3)>> }

\* the peer sends one framed request
ClientSend ==
    \E req \in ConnRequests :
        /\ ~peer_closed
        /\ Len(sent) < MaxFrames
        /\ sock_in' = sock_in \o Frame(req)
        /\ sent' = Append(sent, req)
        /\ UNCHANGED <<conn, sock_out, peer_closed, fate, executed, seen,
                       ndebug, cmdVars, zsetVars, moreVars>>

\* the peer shuts its side down
ClientClose ==
    /\ ~peer_closed
    /\ peer_closed' = TRUE
    /\ UNCHANGED <<conn, sock_in, sock_out, fate, sent, executed, seen,
                   ndebug, cmdVars, zsetVars, moreVars>>

\* the event loop calls process_io on the connection; in state Request the
\* assert at the head of try_fill_buffer fires first when it is compiled in
ProcessIO ==
    /\ fate = "running"
    /\ seen' = Len(sent)
    /\ IF ~ndebug /\ conn.state_ = "Request" /\ ~(Len(conn.rbuf_) < MAX_MSG_SIZE)
       THEN /\ fate' = "aborted"
            /\ UNCHANGED <<conn, sock_in, sock_out, executed>>
       ELSE \E rv \in sys_read(Capacity(conn), sock_in, peer_closed),
               room \in {0, MAX_MSG_SIZE} :
              \E r \in {process_io(conn, rv, room)} :
                /\ conn' = r.c
                /\ sock_in' = SubSeq(sock_in, r.taken + 1, Len(sock_in))
                /\ sock_out' = sock_out \o r.out
                /\ executed' = executed \o r.ran
                /\ fate' = IF r.hung THEN "hung" ELSE "running"
    /\ UNCHANGED <<peer_closed, sent, ndebug, cmdVars, zsetVars, moreVars>>

NextConn == ClientSend \/ ClientClose \/ ProcessIO

----------------------------------------------------------------------------
(* The request parser on its own: parse and try_process_request are given   *)
(* encoded requests, whole, cut short or with a length that overruns.       *)

\* the request frame of the protocol: total length L, argument count N, then
\* N length-prefixed arguments
Encode(req) ==
    LE32(4 + Len(Payload(req))) \o LE32(Len(req)) \o Payload(req)

\* "get" "k", "set" "k" "v", "k", the empty argument and no argument at all
ParseRequests ==
    { <<(<<103, 101, 116>>), (<<107>>)>>,
      <<(<<115, 101, 116>>), (<<107>>), (<<118>>)>>,
      <<>>,
      <<(<<107>>)>>,
      <<(<<>>)>>,
      <<(<<103, 101, 116>>), (<<>>)>> }

\* data with the uint32_t at offset off overwritten by n
Overwrite(data, off, n) ==
    [i \in 1..Len(data) |-> IF i > off /\ i <= off + 4 THEN LE32(n)[i - off] ELSE data[i]]

\* no call made on the parser yet
NoParse ==
    [op |-> "none", req |-> <<>>, data |-> <<>>, ok |-> FALSE, cmd |-> <<>>,
     state_ |-> "Request", rbuf_ |-> <<>>, ran |-> <<>>]

\* what RequestParser::parse returned for data
Parsed(op, req, data) ==
    LET r == parse(data)
    IN  [op |-> op, req |-> req, data |-> data, ok |-> r.ok, cmd |-> r.cmd,
         state_ |-> "Request", rbuf_ |-> data, ran |-> <<>>]

\* parse is given a request in the encoding of the protocol
ParseEncoded ==
    \E req \in ParseRequests :
        /\ pcall' = Parsed("encoded", req, Encode(req))
        /\ UNCHANGED <<cmdVars, zsetVars, connVars, heapVars, avlVars, hmVars, srvVars, concVars>>

\* parse is given a request in the framing its loop reads: total length, then
\* length-prefixed arguments
ParseFramed ==
    \E req \in ParseRequests :
        /\ pcall' = Parsed("framed", req, Frame(req))
        /\ UNCHANGED <<cmdVars, zsetVars, connVars, heapVars, avlVars, hmVars, srvVars, concVars>>

\* parse is given a frame in which a declared length overruns the bytes that
\* follow it: the total length, or the length of the first argument
ParseOverrun ==
    \E req \in ParseRequests \ {<<>>}, extra \in 1..2, which \in {0, 4} :
        /\ pcall' = Parsed("overrun", req,
                           Overwrite(Frame(req), which,
                                     ReadLE32(Frame(req), 0) + extra))
        /\ UNCHANGED <<cmdVars, zsetVars, connVars, heapVars, avlVars, hmVars, srvVars, concVars>>

\* try_process_request runs on a connection whose read buffer holds the first
\* n bytes of one frame, n less than the frame
ProcessPartial ==
    \E req \in ParseRequests :
        \E n \in 0..(Len(Frame(req)) - 1) :
            \E r \in {try_process_request(
                        [NewConnection EXCEPT !.rbuf_ = SubSeq(Frame(req), 1, n)])} :
                /\ pcall' = [op |-> "partial", req |-> req,
                             data |-> SubSeq(Frame(req), 1, n), ok |-> r.ret,
                             cmd |-> <<>>, state_ |-> r.c.state_,
                             rbuf_ |-> r.c.rbuf_, ran |-> r.ran]
                /\ UNCHANGED <<cmdVars, zsetVars, connVars, heapVars, avlVars, hmVars, srvVars, concVars>>

\* what may follow a frame in the read buffer: nothing, the first bytes of
\* another frame, or another frame whole
Followers ==
    {<<>>} \cup { SubSeq(Frame(req), 1, n) : req \in ParseRequests, n \in {3, 4} }
           \cup { Frame(req) : req \in ParseRequests }

\* try_process_request runs on a connection whose read buffer holds one whole
\* frame and what follows it
ProcessFrames ==
    \E req \in ParseRequests, rest \in Followers :
        \E r \in {try_process_request(
                    [NewConnection EXCEPT !.rbuf_ = Frame(req) \o rest])} :
            /\ pcall' = [op |-> "frames", req |-> req,
                         data |-> Frame(req) \o rest, ok |-> r.ret,
                         cmd |-> <<>>, state_ |-> r.c.state_,
                         rbuf_ |-> r.c.rbuf_, ran |-> r.ran]
            /\ UNCHANGED <<cmdVars, zsetVars, connVars, heapVars, avlVars, hmVars, srvVars, concVars>>

NextParser ==
    ParseEncoded \/ ParseFramed \/ ParseOverrun \/ ProcessPartial \/ ProcessFrames

----------------------------------------------------------------------------
(* A connection that sends replies: try_process_request leaves a reply in   *)
(* wbuf_ and the state Response, and process_io is then called with a       *)
(* socket that takes some of the bytes, all of them or none.                *)

\* flush.c is the connection, out the bytes the socket took, want the bytes
\* of the replies put into wbuf_ so far, blocked whether a write has failed
\* with EAGAIN after part of a reply was sent
NoFlush == [c |-> NewConnection, out |-> <<>>, want |-> <<>>, blocked |-> FALSE]

\* the bytes a socket may take before write fails with EAGAIN
Rooms == {0, 1, 4, 8, MAX_MSG_SIZE}

\* a request is run on the connection, which is in Request
FlushRequest ==
    \E req \in ParseRequests :
        \E r \in {try_process_request(
                    [flush.c EXCEPT !.rbuf_ = Frame(req)])} :
            /\ flush.c.state_ = "Request"
            /\ Len(flush.want) < MaxReplies * 13
            /\ flush' = [flush EXCEPT !.c = [r.c EXCEPT !.rbuf_ = <<>>],
                                      !.want = flush.want \o r.c.wbuf_]
            /\ UNCHANGED <<cmdVars, zsetVars, connVars, parseVars, heapVars,
                           avlVars, hmVars, srvVars, poolVars, skipVars, ztasks,
                           slocks>>

\* the event loop calls process_io on the connection, which is in Response
FlushAttempt ==
    \E room \in Rooms :
        \E r \in {process_io(flush.c, EAGAIN, room)} :
            /\ flush.c.state_ = "Response"
            /\ flush' = [flush EXCEPT
                            !.c = r.c,
                            !.out = flush.out \o r.out,
                            !.blocked = flush.blocked
                                          \/ (r.c.state_ = "Response" /\ r.c.wbuf_sent_ > 0)]
            /\ UNCHANGED <<cmdVars, zsetVars, connVars, parseVars, heapVars,
                           avlVars, hmVars, srvVars, poolVars, skipVars, ztasks,
                           slocks>>

NextFlush == FlushRequest \/ FlushAttempt

----------------------------------------------------------------------------
(* An AVLTree<int, int> on its own: keys are set and deleted.               *)

AvlKeys == 1..MaxAvlKey
AvlValues == {1, 2}

AvlSet ==
    \E k \in AvlKeys, v \in AvlValues :
        /\ root_' = AVLTree_set(root_, k, v)
        /\ pairs' = AVL_set(pairs, k, v)
        /\ UNCHANGED <<cmdVars, zsetVars, connVars, parseVars, heapVars, hmVars, srvVars, concVars>>

AvlDel ==
    \E k \in AvlKeys :
        /\ root_' = AVLTree_del(root_, k)
        /\ pairs' = AVL_del(pairs, k)
        /\ UNCHANGED <<cmdVars, zsetVars, connVars, parseVars, heapVars, hmVars, srvVars, concVars>>

NextAvl == AvlSet \/ AvlDel

----------------------------------------------------------------------------
(* HashTable and HashMap (hashtable.hpp).  A node is named by its key, and  *)
(* its hash_code_ is the key; a bucket is the chain of its nodes, head      *)
(* first.  A table is [buckets_, mask_, size_]; positions are 0-based.      *)

RESIZE_WORK_CHUNK == 128
MAX_LOAD_FACTOR == 8
MIN_CAPACITY == 4

\* HashTable::initialize
initialize(capacity) ==
    LET cap == IF capacity > MIN_CAPACITY THEN capacity ELSE MIN_CAPACITY
    IN  [buckets_ |-> [i \in 1..cap |-> <<>>], mask_ |-> cap - 1, size_ |-> 0]

\* HashTable::HashTable(initial_size), std::bit_ceil being the least power of
\* two that is not less than its argument
HashTable(initial_size) ==
    IF initial_size > 0
    THEN initialize(CHOOSE p \in {2 ^ e : e \in 0..16} :
                        /\ p >= initial_size
                        /\ \A q \in {2 ^ e : e \in 0..16} : q >= initial_size => p <= q)
    ELSE [buckets_ |-> <<>>, mask_ |-> 0, size_ |-> 0]

\* HashTable::capacity
capacity(t) == t.mask_ + 1

\* HashTable::insert ; hash_code_ & mask_ with mask_ + 1 a power of two
HT_insert(t, node) ==
    LET tab == IF t.buckets_ = <<>> THEN initialize(MIN_CAPACITY) ELSE t
        pos == node % (tab.mask_ + 1)
    IN  [tab EXCEPT !.buckets_[pos + 1] = <<node>> \o @, !.size_ = @ + 1]

\* HashTable::lookup : whether the chain of the key holds it
HT_lookup(t, key) ==
    /\ t.buckets_ # <<>>
    /\ \E i \in 1..Len(t.buckets_[(key % (t.mask_ + 1)) + 1]) :
          t.buckets_[(key % (t.mask_ + 1)) + 1][i] = key

\* the chain without its first node equal to key
RECURSIVE Unlink(_, _)
Unlink(chain, key) ==
    IF chain = <<>> THEN chain
    ELSE IF Head(chain) = key THEN Tail(chain)
    ELSE <<Head(chain)>> \o Unlink(Tail(chain), key)

\* HashTable::remove : [t, found]; size_ is left as it was
HT_remove(t, key) ==
    IF ~HT_lookup(t, key) THEN [t |-> t, found |-> FALSE]
    ELSE [t |-> [t EXCEPT !.buckets_[(key % (t.mask_ + 1)) + 1] = Unlink(@, key)],
          found |-> TRUE]

\* HashMap::HashMap ; resizing_table_ is an optional: has tells whether it
\* holds a table
NewHashMap ==
    [primary_table_ |-> HashTable(0), has |-> FALSE,
     resizing_table_ |-> HashTable(0), resizing_pos_ |-> 0]

\* the while loop of help_resize : [m, hung, work_done].  When size_ of the
\* resizing table is not 0 and all its buckets are empty, the loop only
\* advances and wraps resizing_pos_, and never ends.
RECURSIVE help_resize_loop(_, _)
help_resize_loop(m, work_done) ==
    IF ~(work_done < RESIZE_WORK_CHUNK /\ m.resizing_table_.size_ # 0)
    THEN [m |-> m, hung |-> FALSE, work_done |-> work_done]
    ELSE IF \A i \in 1..Len(m.resizing_table_.buckets_) :
                m.resizing_table_.buckets_[i] = <<>>
    THEN [m |-> m, hung |-> TRUE, work_done |-> work_done]
    ELSE LET pos == IF m.resizing_pos_ >= capacity(m.resizing_table_)
                    THEN 0 ELSE m.resizing_pos_
             bucket == m.resizing_table_.buckets_[pos + 1]
         IN  IF bucket # <<>>
             THEN help_resize_loop(
                    [m EXCEPT !.resizing_pos_ = pos,
                              !.resizing_table_.buckets_[pos + 1] = Tail(bucket),
                              !.resizing_table_.size_ = @ - 1,
                              !.primary_table_ = HT_insert(@, Head(bucket))],
                    work_done + 1)
             ELSE help_resize_loop([m EXCEPT !.resizing_pos_ = pos + 1], work_done)

\* HashMap::help_resize : [m, hung, work_done]
help_resize(m) ==
    IF ~m.has THEN [m |-> m, hung |-> FALSE, work_done |-> 0]
    ELSE LET r == help_resize_loop(m, 0)
         IN  IF r.hung THEN r
             ELSE IF r.m.resizing_table_.size_ = 0
             THEN [m |-> [r.m EXCEPT !.has = FALSE,
                                     !.resizing_table_ = HashTable(0),
                                     !.resizing_pos_ = 0],
                   hung |-> FALSE, work_done |-> r.work_done]
             ELSE r

\* HashMap::size
HM_size(m) ==
    m.primary_table_.size_ + (IF m.has THEN m.resizing_table_.size_ ELSE 0)

\* HashMap::empty
HM_empty(m) == HM_size(m) = 0

\* HashMap::start_resize
start_resize(m) ==
    [m EXCEPT !.has = TRUE,
              !.resizing_table_ = m.primary_table_,
              !.primary_table_ = HashTable(capacity(m.primary_table_) * 2),
              !.resizing_pos_ = 0]

\* HashMap::insert : [m, hung, work_done]
HM_insert(m, node) ==
    LET fresh == IF m.primary_table_.size_ = 0
                 THEN [m EXCEPT !.primary_table_ = HashTable(MIN_CAPACITY)] ELSE m
        put == [fresh EXCEPT !.primary_table_ = HT_insert(@, node)]
        load_factor == put.primary_table_.size_ \div capacity(put.primary_table_)
    IN  help_resize(IF ~put.has /\ load_factor >= MAX_LOAD_FACTOR
                    THEN start_resize(put) ELSE put)

\* HashMap::find : [m, hung, work_done, found]
find(m, key) ==
    LET r == help_resize(m)
    IN  [m |-> r.m, hung |-> r.hung, work_done |-> r.work_done,
         found |-> /\ ~r.hung
                   /\ \/ HT_lookup(r.m.primary_table_, key)
                      \/ r.m.has /\ HT_lookup(r.m.resizing_table_, key)]

\* HashMap::remove : [m, hung, work_done, found]
HM_remove(m, key) ==
    LET r == help_resize(m)
        first == HT_remove(r.m.primary_table_, key)
        second == HT_remove(r.m.resizing_table_, key)
    IN  IF r.hung
        THEN [m |-> r.m, hung |-> TRUE, work_done |-> r.work_done, found |-> FALSE]
        ELSE IF first.found
        THEN [m |-> [r.m EXCEPT !.primary_table_ = first.t], hung |-> FALSE,
              work_done |-> r.work_done, found |-> TRUE]
        ELSE IF r.m.has /\ second.found
        THEN [m |-> [r.m EXCEPT !.resizing_table_ = second.t], hung |-> FALSE,
              work_done |-> r.work_done, found |-> TRUE]
        ELSE [m |-> r.m, hung |-> FALSE, work_done |-> r.work_done, found |-> FALSE]

----------------------------------------------------------------------------
(* A BinaryHeap on its own.  slots are the size_t objects that position     *)
(* references point at; an item is pushed with a reference to a slot no     *)
(* item in the heap uses, or with none.                                     *)

Refs == {"r1", "r2", "r3"}
HeapValues == {1, 2, 3}

NewSlots == [r \in Refs |-> [type |-> "Slot", heap_idx |-> NONE]]

\* heap.push(HeapItem(value, ref))
HeapPush ==
    \E v \in HeapValues,
       r \in {x \in Refs : \A i \in 1..Len(items_) : items_[i].ref # x} \cup {NULL} :
      \E h \in {push(items_, slots, HeapItem(v, r))} :
        /\ Len(items_) < MaxHeap
        /\ items_' = h.items
        /\ slots' = h.db
        /\ UNCHANGED <<cmdVars, zsetVars, connVars, parseVars, avlVars, hmVars, srvVars, concVars>>

\* heap.pop()
HeapPop ==
    /\ items_ # <<>>
    /\ \E h \in {pop(items_, slots)} :
        /\ items_' = h.items
        /\ slots' = h.db
    /\ UNCHANGED <<cmdVars, zsetVars, connVars, parseVars, avlVars, hmVars, srvVars, concVars>>

\* the caller changes the value of the item at pos, then heap.update(pos)
HeapUpdate ==
    \E pos \in 0..(Len(items_) - 1), v \in HeapValues :
      \E h \in {update([items_ EXCEPT ![pos + 1].val = v], slots, pos)} :
        /\ items_' = h.items
        /\ slots' = h.db
        /\ UNCHANGED <<cmdVars, zsetVars, connVars, parseVars, avlVars, hmVars, srvVars, concVars>>

NextHeap == HeapPush \/ HeapPop \/ HeapUpdate

----------------------------------------------------------------------------
(* A HashMap on its own.  Keys are inserted in ascending order, each after a *)
(* find that missed; the lowest key is also removed and inserted again.     *)

HashKeys == 1..MaxHashKeys
ProbeKeys == {1, 2}
RemoveKeys == {1}

\* no call made on hmap yet
NoHashCall ==
    [op |-> "none", key |-> 0, found |-> FALSE, hung |-> FALSE, moved |-> 0]

\* find(k) misses, then insert(k): k the least key never inserted, or a key
\* that was removed
HashInsert ==
    \E k \in HashKeys \ present :
        /\ ~hcall.hung
        /\ k \in RemoveKeys \/ \A j \in HashKeys : j < k => j \in present \cup RemoveKeys
        /\ \E f \in {find(hmap, k)} :
             IF f.hung \/ f.found
             THEN /\ hmap' = f.m
                  /\ hcall' = [op |-> "find", key |-> k, found |-> f.found,
                               hung |-> f.hung, moved |-> f.work_done]
                  /\ UNCHANGED present
             ELSE \E r \in {HM_insert(f.m, k)} :
                  /\ hmap' = r.m
                  /\ present' = present \cup {k}
                  /\ hcall' = [op |-> "insert", key |-> k, found |-> FALSE,
                               hung |-> r.hung, moved |-> r.work_done]
        /\ UNCHANGED <<cmdVars, zsetVars, connVars, parseVars, heapVars, avlVars, srvVars, concVars>>

HashFind ==
    \E k \in ProbeKeys :
        /\ ~hcall.hung
        /\ \E f \in {find(hmap, k)} :
             /\ hmap' = f.m
             /\ hcall' = [op |-> "find", key |-> k, found |-> f.found,
                          hung |-> f.hung, moved |-> f.work_done]
        /\ UNCHANGED <<present, cmdVars, zsetVars, connVars, parseVars, heapVars, avlVars,
                       srvVars, concVars>>

HashRemove ==
    \E k \in RemoveKeys :
        /\ ~hcall.hung
        /\ \E r \in {HM_remove(hmap, k)} :
             /\ hmap' = r.m
             /\ present' = IF r.hung THEN present ELSE present \ {k}
             /\ hcall' = [op |-> "remove", key |-> k, found |-> r.found,
                          hung |-> r.hung, moved |-> r.work_done]
        /\ UNCHANGED <<cmdVars, zsetVars, connVars, parseVars, heapVars, avlVars, srvVars, concVars>>

NextHash == HashInsert \/ HashFind \/ HashRemove

----------------------------------------------------------------------------
(* Server (server.hpp): the connections with their idle list, and the timer *)
(* pass of the event loop over the idle list and the TTL heap.  The key     *)
(* index db and the heap are those the commands work on.                    *)

IDLE_TIMEOUT == 5000    \* milliseconds
max_ttl_ops == 2000

Fds == {3, 4}

\* what connections_ holds for an fd it does not contain
NoConnection == [open |-> FALSE, idle_start_ |-> 0, state_ |-> "Request"]

\* Connection::Connection : idle_start_ is the time of construction
Connection(t) == [open |-> TRUE, idle_start_ |-> t, state_ |-> "Request"]

\* Connection::update_idle_time
update_idle_time(c, t) == [c EXCEPT !.idle_start_ = t]

\* dlist_insert_before(&idle_list_, node): before the list head, which is
\* the end of the list
dlist_insert_before(list, fd) == Append(list, fd)

\* dlist_detach(node)
dlist_detach(list, fd) == SelectSeq(list, LAMBDA x : x # fd)

\* Server::add_connection
add_connection(conns, list, fd, t) ==
    [connections_ |-> [conns EXCEPT ![fd] = Connection(t)],
     idle_list_ |-> dlist_insert_before(list, fd)]

\* Server::remove_connection
remove_connection(conns, list, fd) ==
    IF conns[fd].open
    THEN [connections_ |-> [conns EXCEPT ![fd] = NoConnection],
          idle_list_ |-> dlist_detach(list, fd)]
    ELSE [connections_ |-> conns, idle_list_ |-> list]

\* process_timers, the loop over the idle list: the head of the list is
\* looked at, and the loop ends at the first head that is not idle enough
RECURSIVE idle_loop(_, _, _)
idle_loop(conns, list, t) ==
    IF list = <<>> THEN [connections_ |-> conns, idle_list_ |-> list]
    ELSE IF t - conns[Head(list)].idle_start_ < IDLE_TIMEOUT * 1000
    THEN [connections_ |-> conns, idle_list_ |-> list]
    ELSE LET r == remove_connection(conns, list, Head(list))
         IN  idle_loop(r.connections_, r.idle_list_, t)

\* hm_pop(&db_, &entry->node, eq): the key index without the entry, and
\* whether the entry was in it
hm_pop(d, k) == [db |-> [d EXCEPT ![k] = NoEntry], node |-> d[k] # NoEntry]

\* EntryManager::delete_entry_async : the pool is to run destroy_entry(entry)
delete_entry_async(p, k) == [p EXCEPT ![k] = @ + 1]

\* process_timers, one pass of the loop over the TTL heap, on
\* s = [db, pool, fate, touched, ttl_ops]: the test of the while and, when it
\* holds, the body.  No statement of the body takes heap_[0] off the heap h.
\* release tells whether assert is compiled out; touched collects the
\* entries the loop uses after it has enqueued them for destruction.
ttl_pass(s, h, t, release) ==
    IF ~(s.fate = "running" /\ h # <<>> /\ h[1].val <= t /\ s.ttl_ops < max_ttl_ops)
    THEN s
    ELSE LET entry == h[1].ref
             popped == hm_pop(s.db, entry)
             used == IF s.pool[entry] > 0 THEN s.touched \cup {entry} ELSE s.touched
         IN  IF ~popped.node /\ ~release
             THEN [s EXCEPT !.db = popped.db, !.fate = "aborted", !.touched = used]
             ELSE [s EXCEPT !.db = popped.db, !.touched = used,
                            !.pool = delete_entry_async(@, entry),
                            !.ttl_ops = @ + 1]

\* n passes of the loop, one after the other, as long as the process runs
RECURSIVE ttl_passes(_, _, _, _, _)
ttl_passes(s, h, t, release, n) ==
    IF n = 0 THEN s
    ELSE IF n = 1 THEN ttl_pass(s, h, t, release)
    ELSE LET half == ttl_passes(s, h, t, release, n \div 2)
         IN  IF half.fate # "running" THEN half
             ELSE ttl_passes(half, h, t, release, n - n \div 2)

\* process_timers, the loop over the TTL heap: it makes at most max_ttl_ops
\* passes, and a pass whose test fails changes nothing
ttl_loop(d, h, t, p, release) ==
    ttl_passes([db |-> d, pool |-> p, fate |-> "running", touched |-> {},
                ttl_ops |-> 0], h, t, release, max_ttl_ops + 1)

\* duration_cast<milliseconds> of a number of microseconds: towards zero
to_milliseconds(us) == IF us >= 0 THEN us \div 1000 ELSE -((-us) \div 1000)

\* Server::calculate_next_timeout, in milliseconds: the least of 24 hours,
\* the time until the head of the idle list is idle for IDLE_TIMEOUT and the
\* time until the root of the TTL heap is due; min and the subtraction of now
\* are made on time points and the cast is made last, which is the same as
\* the least of the three casts
calculate_next_timeout(conns, list, h, t) ==
    LET day == 24 * 3600 * 1000
        idle == IF list = <<>> THEN day
                ELSE to_milliseconds(conns[Head(list)].idle_start_
                                        + IDLE_TIMEOUT * 1000 - t)
        ttl == IF h = <<>> THEN day ELSE to_milliseconds(h[1].val - t)
    IN  Min(day, Min(idle, ttl))

\* no process_timers call yet, the loop is not in poll, no connection is in
\* state End; ended[fd] counts the process_timers calls that have returned
\* since the connection of fd went to End, -1 when it is not in End
NoTimers ==
    [ticks |-> 0, fate |-> "running", touched |-> {}, waiting |-> FALSE,
     ended |-> [fd \in Fds |-> -1]]

\* ended, for the connections conns, after ticks more process_timers calls
Ended(conns, ended, ticks) ==
    [fd \in Fds |->
        IF ~(conns[fd].open /\ conns[fd].state_ = "End") THEN -1
        ELSE IF ended[fd] < 0 THEN 0
        ELSE Min(ended[fd] + ticks, MaxTicks)]

\* accept_new_connections : one connection is accepted on an unused fd; the
\* event on the listening socket ends the wait in poll
Accept ==
    \E fd \in Fds :
        /\ ~connections_[fd].open
        /\ \E r \in {add_connection(connections_, idle_list_, fd, now)} :
             /\ connections_' = r.connections_
             /\ idle_list_' = r.idle_list_
        /\ timers' = [timers EXCEPT !.waiting = FALSE]
        /\ UNCHANGED <<pool, cmdVars, zsetVars, connVars, parseVars, heapVars,
                       avlVars, hmVars, concVars>>

\* process_active_connections for the fd of one event.  process_io notes the
\* time; on a connection in End it fails; on one in Request the read finds
\* nothing ("ok"), returns 0, which sets End ("end"), or fails ("error").
\* When process_io fails, remove_connection locks connections_mutex_, which
\* this thread holds already: the call deadlocks or goes through.
IoOn(fd, outcome, relock) ==
    /\ connections_[fd].open
    /\ connections_[fd].state_ = "End" => outcome = "error"
    /\ outcome # "error" => relock = "through"
    /\ \E noted \in {[connections_ EXCEPT ![fd] = update_idle_time(@, now)]} :
         IF outcome = "ok"
         THEN /\ connections_' = noted
              /\ timers' = [timers EXCEPT !.waiting = FALSE]
              /\ UNCHANGED idle_list_
         ELSE IF outcome = "end"
         THEN /\ connections_' = [noted EXCEPT ![fd].state_ = "End"]
              /\ timers' = [timers EXCEPT
                               !.waiting = FALSE,
                               !.ended = Ended(connections_', timers.ended, 0)]
              /\ UNCHANGED idle_list_
         ELSE IF relock = "deadlock"
         THEN /\ connections_' = noted
              /\ timers' = [timers EXCEPT !.fate = "deadlocked"]
              /\ UNCHANGED idle_list_
         ELSE \E r \in {remove_connection(noted, idle_list_, fd)} :
              /\ connections_' = r.connections_
              /\ idle_list_' = r.idle_list_
              /\ timers' = [timers EXCEPT
                               !.waiting = FALSE,
                               !.ended = Ended(r.connections_, timers.ended, 0)]
    /\ UNCHANGED <<pool, cmdVars, zsetVars, connVars, parseVars, heapVars, avlVars,
                   hmVars, concVars>>

Io ==
    \E fd \in Fds, outcome \in {"ok", "end", "error"},
       relock \in {"deadlock", "through"} : IoOn(fd, outcome, relock)

\* the server waits in poll with the timeout calculate_next_timeout gave: a
\* negative timeout makes poll wait for an event without limit
Elapse ==
    /\ now + ElapseUs <= MaxElapse * ElapseUs
    /\ now' = now + ElapseUs
    /\ timers' = [timers EXCEPT
                     !.waiting = @ \/ calculate_next_timeout(connections_, idle_list_,
                                                             heap, now) < 0]
    /\ UNCHANGED <<db, heap, args, response, lastSet, lastTTL, zsetVars, connVars,
                   parseVars, heapVars, avlVars, hmVars, connections_, idle_list_,
                   pool, concVars>>

\* Server::process_timers, which the loop reaches when poll has returned
ProcessTimers ==
    /\ timers.ticks < MaxTicks
    /\ ~timers.waiting
    /\ \E i \in {idle_loop(connections_, idle_list_, now)},
          r \in {ttl_loop(db, heap, now, pool, ndebug)} :
         /\ connections_' = i.connections_
         /\ idle_list_' = i.idle_list_
         /\ db' = r.db
         /\ pool' = r.pool
         /\ timers' = [timers EXCEPT
                          !.ticks = @ + 1, !.fate = r.fate, !.touched = r.touched,
                          !.ended = Ended(i.connections_, @, 1)]
    /\ UNCHANGED <<heap, now, args, response, lastSet, lastTTL, zsetVars, connVars,
                   parseVars, heapVars, avlVars, hmVars, concVars>>

\* the event loop of the server, while the process runs
Running == timers.fate = "running"

\* the requests the server is given are on one key
NextServer ==
    \/ Running /\ Set({"v1"}) /\ args'[2] = "k1"
    \/ Running /\ Pexpire({<<"1">>}) /\ args'[2] = "k1"
    \/ Running /\ Elapse
    \/ Running /\ Accept
    \/ Running /\ Io
    \/ Running /\ ProcessTimers

----------------------------------------------------------------------------
(* ThreadPool (thread_pool.hpp).  Each block that runs under mutex_ is one  *)
(* step.  A thread inside condition_.wait whose predicate was false is in   *)
(* condition_ until a notify or a spurious wakeup makes it test again.      *)

Workers == {"w1", "w2"}
Tasks == 1..MaxTasks
Waiter == "waiter"

\* ThreadPool::ThreadPool : every worker thread starts in worker()
NewThreads == [w \in Workers |-> [pc |-> "check", task |-> 0]]

NewTasks == [t \in Tasks |-> [status |-> "new", runs |-> 0]]

\* no call on the pool yet: the owner has not begun the destructor, no
\* notify_one is outstanding, nobody has called wait_for_tasks
NoCallers ==
    [owner |-> "alive", notify |-> 0, waiter |-> "none", before |-> {}]

\* the tasks enqueue has accepted
Accepted == {t \in Tasks : tstate[t].status \in {"queued", "running", "finished"}}

\* ThreadPool::enqueue, the block under the lock: on a stopped pool it
\* throws, else the task goes to the end of the queue; notify_one is then
\* still to be made
Enqueue ==
    \E t \in Tasks :
        /\ tstate[t].status = "new"
        /\ callers.owner # "destroyed"
        /\ IF stop
           THEN /\ tstate' = [tstate EXCEPT ![t].status = "rejected"]
                /\ UNCHANGED <<tasks_, callers>>
           ELSE /\ tasks_' = Append(tasks_, t)
                /\ tstate' = [tstate EXCEPT ![t].status = "queued"]
                /\ callers' = [callers EXCEPT !.notify = @ + 1]
        /\ UNCHANGED <<stop, threads_, condition_, cmdVars, zsetVars, connVars, parseVars,
                       heapVars, avlVars, hmVars, srvVars, skipVars, unitVars>>

\* a thread leaves condition_.wait to test its predicate again
Wake(th) ==
    /\ condition_' = condition_ \ {th}
    /\ IF th = Waiter
       THEN /\ callers' = [callers EXCEPT !.waiter = "check", !.notify = @ - 1]
            /\ UNCHANGED threads_
       ELSE /\ threads_' = [threads_ EXCEPT ![th].pc = "check"]
            /\ callers' = [callers EXCEPT !.notify = @ - 1]

\* ThreadPool::enqueue, condition_.notify_one(): one of the threads blocked
\* on condition_ wakes, whichever the implementation picks
NotifyOne ==
    /\ callers.notify > 0
    /\ IF condition_ = {}
       THEN /\ callers' = [callers EXCEPT !.notify = @ - 1]
            /\ UNCHANGED <<threads_, condition_>>
       ELSE \E th \in condition_ : Wake(th)
    /\ UNCHANGED <<tasks_, stop, tstate, cmdVars, zsetVars, connVars, parseVars, heapVars,
                   avlVars, hmVars, srvVars, skipVars, unitVars>>

\* condition_.wait may return without a notify
SpuriousWakeup ==
    \E th \in condition_ :
        /\ condition_' = condition_ \ {th}
        /\ IF th = Waiter
           THEN /\ callers' = [callers EXCEPT !.waiter = "check"]
                /\ UNCHANGED threads_
           ELSE /\ threads_' = [threads_ EXCEPT ![th].pc = "check"]
                /\ UNCHANGED callers
        /\ UNCHANGED <<tasks_, stop, tstate, cmdVars, zsetVars, connVars, parseVars,
                       heapVars, avlVars, hmVars, srvVars, skipVars, unitVars>>

\* ThreadPool::worker, the block under the lock: wait for stop or a task,
\* return when stopped with an empty queue, else take the front task
WorkerTake(w) ==
    /\ threads_[w].pc = "check"
    /\ IF ~(stop \/ tasks_ # <<>>)
       THEN /\ condition_' = condition_ \cup {w}
            /\ threads_' = [threads_ EXCEPT ![w].pc = "asleep"]
            /\ UNCHANGED <<tasks_, tstate>>
       ELSE IF stop /\ tasks_ = <<>>
       THEN /\ threads_' = [threads_ EXCEPT ![w].pc = "exited"]
            /\ UNCHANGED <<tasks_, tstate, condition_>>
       ELSE /\ threads_' = [threads_ EXCEPT ![w] = [pc |-> "run", task |-> Head(tasks_)]]
            /\ tasks_' = Tail(tasks_)
            /\ tstate' = [tstate EXCEPT ![Head(tasks_)].status = "running"]
            /\ UNCHANGED condition_
    /\ UNCHANGED <<stop, callers, cmdVars, zsetVars, connVars, parseVars, heapVars, avlVars,
                   hmVars, srvVars, skipVars, unitVars>>

\* ThreadPool::worker, task() : the task runs to its end outside the lock
WorkerRun(w) ==
    /\ threads_[w].pc = "run"
    /\ tstate' = [tstate EXCEPT ![threads_[w].task] =
                     [status |-> "finished", runs |-> @.runs + 1]]
    /\ threads_' = [threads_ EXCEPT ![w] = [pc |-> "check", task |-> 0]]
    /\ UNCHANGED <<tasks_, stop, condition_, callers, cmdVars, zsetVars, connVars,
                   parseVars, heapVars, avlVars, hmVars, srvVars, skipVars, unitVars>>

\* ThreadPool::wait_for_tasks : the predicate of the wait is tasks_.empty();
\* before notes the tasks accepted when the call is made.  The call is made
\* once, and tested again after each wakeup.
WaitForTasks ==
    /\ callers.waiter \in {"none", "check"}
    /\ callers.owner = "alive"
    /\ callers' = [callers EXCEPT
                     !.waiter = IF tasks_ = <<>> THEN "returned" ELSE "asleep",
                     !.before = IF callers.waiter = "none" THEN Accepted ELSE @]
    /\ condition_' = IF tasks_ = <<>> THEN condition_ ELSE condition_ \cup {Waiter}
    /\ UNCHANGED <<tasks_, stop, threads_, tstate, cmdVars, zsetVars, connVars, parseVars,
                   heapVars, avlVars, hmVars, srvVars, skipVars, unitVars>>

\* ThreadPool::~ThreadPool : stop is set under the lock.  The owner destroys
\* the pool when no other call on it is under way.
DtorStop ==
    /\ callers.owner = "alive"
    /\ callers.notify = 0
    /\ callers.waiter \in {"none", "returned"}
    /\ stop' = TRUE
    /\ callers' = [callers EXCEPT !.owner = "stopping"]
    /\ UNCHANGED <<tasks_, threads_, condition_, tstate, cmdVars, zsetVars, connVars,
                   parseVars, heapVars, avlVars, hmVars, srvVars, skipVars, unitVars>>

\* ThreadPool::~ThreadPool : condition_.notify_all()
DtorNotifyAll ==
    /\ callers.owner = "stopping"
    /\ condition_' = {}
    /\ threads_' = [w \in Workers |->
                      IF w \in condition_ THEN [threads_[w] EXCEPT !.pc = "check"]
                      ELSE threads_[w]]
    /\ callers' = [callers EXCEPT !.owner = "joining"]
    /\ UNCHANGED <<tasks_, stop, tstate, cmdVars, zsetVars, connVars, parseVars, heapVars,
                   avlVars, hmVars, srvVars, skipVars, unitVars>>

\* ThreadPool::~ThreadPool : the joins return when every worker has returned
DtorJoin ==
    /\ callers.owner = "joining"
    /\ \A w \in Workers : threads_[w].pc = "exited"
    /\ callers' = [callers EXCEPT !.owner = "destroyed"]
    /\ UNCHANGED <<tasks_, stop, threads_, condition_, tstate, cmdVars, zsetVars, connVars,
                   parseVars, heapVars, avlVars, hmVars, srvVars, skipVars, unitVars>>

NextPool ==
    \/ Enqueue \/ NotifyOne \/ SpuriousWakeup
    \/ \E w \in Workers : WorkerTake(w) \/ WorkerRun(w)
    \/ WaitForTasks
    \/ DtorStop \/ DtorNotifyAll \/ DtorJoin

----------------------------------------------------------------------------
(* SkipList<int, int> (src/skiplist.hpp).  A node is named by its place in  *)
(* nodes, the head by 1, the null pointer by 0; a node's forward holds the  *)
(* unique_ptr of each level, forward_raw the raw pointers; a node that was  *)
(* destroyed stays in nodes with freed set.  Level i of the code is place   *)
(* i + 1 of these sequences.                                                *)

MAX_LEVEL == 16
nullptr == 0
head == 1

\* what randomLevel returns: the generator is not modelled
LevelChoices == {1, 2}

SkipKeys == 1..MaxSkipKey
SkipThreads == {"t1", "t2"}

\* SkipList::Node::Node
Node(k, v) ==
    [key |-> k, value |-> v, forward |-> [i \in 1..MAX_LEVEL |-> nullptr],
     forward_raw |-> [i \in 1..MAX_LEVEL |-> nullptr], freed |-> FALSE]

\* SkipList::SkipList : the key of the head is numeric_limits<int>::min()
NewSkipList ==
    [nodes |-> <<Node(-2147483647 - 1, 0)>>, currentLevel |-> 1, fate |-> "running"]

NoUpdate == [i \in 1..MAX_LEVEL |-> nullptr]

\* the inner loop of get and del at level i: along forward_raw while the
\* next key is less than key
RECURSIVE walk_raw(_, _, _, _)
walk_raw(nodes, current, i, key) ==
    LET next == nodes[current].forward_raw[i + 1]
    IN  IF next = nullptr \/ nodes[next].key >= key THEN current
        ELSE walk_raw(nodes, next, i, key)

\* the inner loop of set at level i: along forward, the owning pointers
RECURSIVE walk_owned(_, _, _, _)
walk_owned(nodes, current, i, key) ==
    LET next == nodes[current].forward[i + 1]
    IN  IF next = nullptr \/ nodes[next].key >= key THEN current
        ELSE walk_owned(nodes, next, i, key)

\* the outer loop of get, set and del from level i down to 0: [current,
\* update], update filled at the levels walked; raw tells which pointers
RECURSIVE descend(_, _, _, _, _, _)
descend(nodes, current, i, key, upd, raw) ==
    IF i < 0 THEN [current |-> current, update |-> upd]
    ELSE LET at == IF raw THEN walk_raw(nodes, current, i, key)
                   ELSE walk_owned(nodes, current, i, key)
         IN  descend(nodes, at, i - 1, key, [upd EXCEPT ![i + 1] = at], raw)

\* SkipList::get : [found, value, ub]; ub tells that a destroyed node was read
get(sl, key) ==
    LET at == descend(sl.nodes, head, sl.currentLevel - 1, key, NoUpdate, TRUE)
        current == sl.nodes[at.current].forward_raw[1]
    IN  IF current # nullptr /\ sl.nodes[current].key = key
        THEN [found |-> TRUE, value |-> sl.nodes[current].value,
              ub |-> sl.nodes[current].freed]
        ELSE [found |-> FALSE, value |-> 0, ub |-> FALSE]

\* SkipList::set up to the locks: the walk, and the promotion of
\* currentLevel to newLevel : [sl, update]
set_walk(sl, key, newLevel) ==
    LET at == descend(sl.nodes, head, sl.currentLevel - 1, key, NoUpdate, FALSE)
        cur == sl.currentLevel
    IN  IF newLevel > cur
        THEN [sl |-> [sl EXCEPT !.currentLevel = newLevel],
              update |-> [i \in 1..MAX_LEVEL |->
                            IF i - 1 >= cur /\ i - 1 < newLevel THEN head
                            ELSE at.update[i]]]
        ELSE [sl |-> sl, update |-> at.update]

\* SkipList::set under the locks: the value of an existing key is replaced,
\* else a new node is linked behind update[i] at the levels below newLevel
set_locked(sl, upd, newLevel, key, value) ==
    LET nodes == sl.nodes
        next == nodes[upd[1]].forward_raw[1]
        new == Len(nodes) + 1
        newNode == [Node(key, value) EXCEPT
                      !.forward = [i \in 1..MAX_LEVEL |->
                                     IF i <= newLevel THEN nodes[upd[i]].forward[i]
                                     ELSE nullptr],
                      !.forward_raw = [i \in 1..MAX_LEVEL |->
                                     IF i <= newLevel THEN nodes[upd[i]].forward[i]
                                     ELSE nullptr]]
        linked == [n \in 1..Len(nodes) |->
                     [nodes[n] EXCEPT
                        !.forward = [i \in 1..MAX_LEVEL |->
                                       IF i <= newLevel /\ upd[i] = n
                                       THEN (IF i = 1 THEN new ELSE nullptr)
                                       ELSE @[i]],
                        !.forward_raw = [i \in 1..MAX_LEVEL |->
                                       IF i <= newLevel /\ upd[i] = n THEN new
                                       ELSE @[i]]]]
    IN  IF next # nullptr /\ nodes[next].key = key
        THEN [sl EXCEPT !.nodes[next].value = value]
        ELSE [sl EXCEPT !.nodes = Append(linked, newNode)]

\* the destructor of a node: the node and the nodes its forward owns
RECURSIVE Destroy(_, _, _)
Destroy(nodes, n, i) ==
    IF n = nullptr THEN nodes
    ELSE IF i > MAX_LEVEL THEN [nodes EXCEPT ![n].freed = TRUE]
    ELSE Destroy(Destroy(nodes, nodes[n].forward[i], 1), n, i + 1)

\* SkipList::del, the loop that unlinks target, from level i on:
\* [nodes, ub]; ub tells that update[i] was null or target was destroyed
\* when the loop read through it
RECURSIVE unlink(_, _, _, _, _)
unlink(nodes, upd, target, i, ub) ==
    IF i >= MAX_LEVEL THEN [nodes |-> nodes, ub |-> ub]
    ELSE IF upd[i + 1] = nullptr THEN unlink(nodes, upd, target, i + 1, TRUE)
    ELSE IF nodes[upd[i + 1]].forward_raw[i + 1] # target
    THEN unlink(nodes, upd, target, i + 1, ub)
    ELSE LET u == upd[i + 1]
             stale == ub \/ nodes[target].freed
         IN  IF nodes[target].forward[i + 1] # nullptr
             THEN LET moved == [nodes EXCEPT
                                  ![u].forward[i + 1] = nodes[target].forward[i + 1],
                                  ![u].forward_raw[i + 1] = nodes[target].forward[i + 1],
                                  ![target].forward[i + 1] = nullptr]
                  IN  unlink(Destroy(moved, nodes[u].forward[i + 1], 1),
                             upd, target, i + 1, stale)
             ELSE unlink([nodes EXCEPT
                            ![u].forward_raw[i + 1] = nodes[target].forward_raw[i + 1]],
                         upd, target, i + 1, stale)

\* SkipList::del, the loop that lowers currentLevel
RECURSIVE lower(_, _)
lower(nodes, level) ==
    IF level > 1 /\ nodes[head].forward_raw[level] = nullptr
    THEN lower(nodes, level - 1) ELSE level

\* SkipList::del under the locks, update being what the walk found:
\* [sl, ub]
del_locked(sl, upd, key) ==
    LET target == sl.nodes[upd[1]].forward_raw[1]
        r == unlink(sl.nodes, upd, target, 0, FALSE)
    IN  IF target = nullptr \/ sl.nodes[target].key # key
        THEN [sl |-> sl, ub |-> FALSE]
        ELSE [sl |-> [sl EXCEPT !.nodes = r.nodes,
                                !.currentLevel = lower(r.nodes, sl.currentLevel)],
              ub |-> r.ub \/ r.nodes[target].freed]

\* a thread that is in no call
Idle == [pc |-> "idle", key |-> 0, update |-> NoUpdate, level |-> 0]

NoGet == [key |-> 0, found |-> FALSE, value |-> 0]

\* undefined behaviour ends the process, or goes on with what memory holds
Outcome(sl, ub, lucky) ==
    IF ub /\ ~lucky THEN [sl EXCEPT !.fate = "crashed"] ELSE sl

\* a thread calls get(k, out)
SkipGet ==
    \E t \in SkipThreads, k \in SkipKeys, lucky \in BOOLEAN :
        /\ skiplist.fate = "running"
        /\ sthreads[t].pc = "idle"
        /\ \E r \in {get(skiplist, k)} :
             /\ r.ub \/ lucky
             /\ skiplist' = Outcome(skiplist, r.ub, lucky)
             /\ sget' = [key |-> k, found |-> r.found, value |-> r.value]
        /\ UNCHANGED <<sthreads, slast, cmdVars, zsetVars, connVars, parseVars, heapVars,
                       avlVars, hmVars, srvVars, poolVars, unitVars>>

\* a thread calls set(k, 10 * k) and reaches the locks
SkipSetWalk ==
    \E t \in SkipThreads, k \in SkipKeys, newLevel \in LevelChoices :
        /\ skiplist.fate = "running"
        /\ sthreads[t].pc = "idle"
        /\ Len(skiplist.nodes) + Cardinality({u \in SkipThreads : sthreads[u].pc = "set"})
              < MaxSkipNodes
        /\ \E r \in {set_walk(skiplist, k, newLevel)} :
             /\ skiplist' = r.sl
             /\ sthreads' = [sthreads EXCEPT ![t] =
                               [pc |-> "set", key |-> k, update |-> r.update,
                                level |-> newLevel]]
        /\ UNCHANGED <<slast, sget, cmdVars, zsetVars, connVars, parseVars, heapVars,
                       avlVars, hmVars, srvVars, poolVars, unitVars>>

\* the thread has the locks, writes and returns
SkipSetLocked ==
    \E t \in SkipThreads :
        /\ skiplist.fate = "running"
        /\ sthreads[t].pc = "set"
        /\ skiplist' = set_locked(skiplist, sthreads[t].update, sthreads[t].level,
                                  sthreads[t].key, 10 * sthreads[t].key)
        /\ sthreads' = [sthreads EXCEPT ![t] = Idle]
        /\ slast' = [slast EXCEPT ![sthreads[t].key] = "set"]
        /\ UNCHANGED <<sget, cmdVars, zsetVars, connVars, parseVars, heapVars, avlVars,
                       hmVars, srvVars, poolVars, unitVars>>

\* a thread calls del(k) and reaches the locks
SkipDelWalk ==
    \E t \in SkipThreads, k \in SkipKeys :
        /\ skiplist.fate = "running"
        /\ sthreads[t].pc = "idle"
        /\ sthreads' = [sthreads EXCEPT ![t] =
                          [pc |-> "del", key |-> k,
                           update |-> descend(skiplist.nodes, head,
                                              skiplist.currentLevel - 1, k, NoUpdate,
                                              TRUE).update,
                           level |-> skiplist.currentLevel]]
        /\ UNCHANGED <<skiplist, slast, sget, cmdVars, zsetVars, connVars, parseVars,
                       heapVars, avlVars, hmVars, srvVars, poolVars, unitVars>>

\* the thread has the locks, unlinks and returns
SkipDelLocked ==
    \E t \in SkipThreads, lucky \in BOOLEAN :
        /\ skiplist.fate = "running"
        /\ sthreads[t].pc = "del"
        /\ \E r \in {del_locked(skiplist, sthreads[t].update, sthreads[t].key)} :
             /\ r.ub \/ lucky
             /\ skiplist' = Outcome(r.sl, r.ub, lucky)
        /\ sthreads' = [sthreads EXCEPT ![t] = Idle]
        /\ slast' = [slast EXCEPT ![sthreads[t].key] = "del"]
        /\ UNCHANGED <<sget, cmdVars, zsetVars, connVars, parseVars, heapVars, avlVars,
                       hmVars, srvVars, poolVars, unitVars>>

NextSkip == SkipGet \/ SkipSetWalk \/ SkipSetLocked \/ SkipDelWalk \/ SkipDelLocked

----------------------------------------------------------------------------
(* ZSet::add as it runs (zset.hpp): the event-loop thread enqueues the     *)
(* task, a thread of the set's pool runs add_internal step by step.  The    *)
(* ZSet is the one an entry of the key index holds (entry->zset).  hash is  *)
(* the set of names the name index holds, tree the <<name, score>> pairs of *)
(* the ordered index.  mutex_ is "free" or the thread that locked it.       *)

ZThreads == {"z1", "z2"}
TaskNames == {"a", "b"}
TaskScores == {1, 2}

ZIdle == [pc |-> "idle", name |-> "", score |-> 0]

NewZTasks ==
    [mutex_ |-> "free", queue |-> <<>>, thr |-> [t \in ZThreads |-> ZIdle],
     hash |-> {}, tree |-> {}, added |-> 0, loop |-> "idle", crashed |-> FALSE]

\* the task of thread t is over: it returned or it threw
ZReturn(z, t) == [z EXCEPT !.thr[t] = ZIdle]

\* ZSet::add on the event-loop thread: thread_pool_.enqueue of the task
ZAddCall ==
    \E name \in TaskNames, score \in TaskScores :
        /\ ~ztasks.crashed
        /\ ztasks.added < MaxAdds
        /\ ztasks' = [ztasks EXCEPT
                        !.queue = Append(@, [name |-> name, score |-> score]),
                        !.added = @ + 1]
        /\ UNCHANGED <<cmdVars, zsetVars, connVars, parseVars, heapVars, avlVars,
                       hmVars, srvVars, poolVars, skipVars, flush, slocks>>

\* a pool thread takes the task at the head of the queue
ZRun ==
    \E t \in ZThreads :
        /\ ~ztasks.crashed
        /\ ztasks.thr[t].pc = "idle"
        /\ ztasks.queue # <<>>
        /\ ztasks' = [ztasks EXCEPT
                        !.queue = Tail(@),
                        !.thr[t] = [pc |-> "lock", name |-> Head(ztasks.queue).name,
                                    score |-> Head(ztasks.queue).score]]
        /\ UNCHANGED <<cmdVars, zsetVars, connVars, parseVars, heapVars, avlVars,
                       hmVars, srvVars, poolVars, skipVars, flush, slocks>>

\* add_internal: std::lock_guard<std::mutex> lock(mutex_)
ZLock ==
    \E t \in ZThreads :
        /\ ~ztasks.crashed
        /\ ztasks.thr[t].pc = "lock"
        /\ ztasks.mutex_ = "free"
        /\ ztasks' = [ztasks EXCEPT !.mutex_ = t, !.thr[t].pc = "lookup"]
        /\ UNCHANGED <<cmdVars, zsetVars, connVars, parseVars, heapVars, avlVars,
                       hmVars, srvVars, poolVars, skipVars, flush, slocks>>

\* add_internal: lookup(name).  The node the name index points to was owned
\* by the shared_ptr local to the add_internal that inserted it and is
\* destroyed; reading its key gives the key, an empty key, or a crash.
ZLookup ==
    \E t \in ZThreads, read \in {"key", "empty", "crash"} :
        /\ ~ztasks.crashed
        /\ ztasks.thr[t].pc = "lookup"
        /\ ztasks' =
             IF ztasks.thr[t].name \notin ztasks.hash
             THEN [ztasks EXCEPT !.thr[t].pc = "insert"]
             ELSE IF read = "key" THEN [ztasks EXCEPT !.thr[t].pc = "relock"]
             ELSE IF read = "empty" THEN [ztasks EXCEPT !.thr[t].pc = "insert"]
             ELSE [ztasks EXCEPT !.crashed = TRUE]
        /\ UNCHANGED <<cmdVars, zsetVars, connVars, parseVars, heapVars, avlVars,
                       hmVars, srvVars, poolVars, skipVars, flush, slocks>>

\* add_internal: hash.insert, tree.set, return true; the lock_guard unlocks
ZInsert ==
    \E t \in ZThreads :
        /\ ~ztasks.crashed
        /\ ztasks.thr[t].pc = "insert"
        /\ ztasks' = ZReturn([ztasks EXCEPT
                        !.hash = @ \cup {ztasks.thr[t].name},
                        !.tree = {p \in @ : p[1] # ztasks.thr[t].name}
                                   \cup {<<ztasks.thr[t].name, ztasks.thr[t].score>>},
                        !.mutex_ = "free"], t)
        /\ UNCHANGED <<cmdVars, zsetVars, connVars, parseVars, heapVars, avlVars,
                       hmVars, srvVars, poolVars, skipVars, flush, slocks>>

\* update_score: std::lock_guard<std::mutex> lock(mutex_) of its first
\* section.  Locking a std::mutex the thread owns is undefined: the thread
\* blocks for ever, or lock throws std::system_error (the task ends and the
\* lock_guard of add_internal unlocks), or the lock is granted.
ZRelock ==
    \E t \in ZThreads, outcome \in {"blocks", "throws", "granted"} :
        /\ ~ztasks.crashed
        /\ ztasks.thr[t].pc = "relock"
        /\ ztasks' =
             IF ztasks.mutex_ = t
             THEN CASE outcome = "blocks" -> [ztasks EXCEPT !.thr[t].pc = "hung"]
                    [] outcome = "throws" -> ZReturn([ztasks EXCEPT !.mutex_ = "free"], t)
                    [] outcome = "granted" -> [ztasks EXCEPT !.thr[t].pc = "find"]
             ELSE IF ztasks.mutex_ = "free"
             THEN [ztasks EXCEPT !.mutex_ = t, !.thr[t].pc = "find"]
             ELSE ztasks
        /\ ztasks' # ztasks
        /\ UNCHANGED <<cmdVars, zsetVars, connVars, parseVars, heapVars, avlVars,
                       hmVars, srvVars, poolVars, skipVars, flush, slocks>>

\* update_score: hash.find(key) under the lock of the first section, which
\* is released at the end of the section
ZFind ==
    \E t \in ZThreads :
        /\ ~ztasks.crashed
        /\ ztasks.thr[t].pc = "find"
        /\ ztasks' =
             IF ztasks.thr[t].name \in ztasks.hash
             THEN [ztasks EXCEPT !.mutex_ = "free", !.thr[t].pc = "update"]
             ELSE ZReturn([ztasks EXCEPT !.mutex_ = "free"], t)
        /\ UNCHANGED <<cmdVars, zsetVars, connVars, parseVars, heapVars, avlVars,
                       hmVars, srvVars, poolVars, skipVars, flush, slocks>>

\* update_score: tree.del(key), node->set_value, tree.set(key, new_score),
\* then add_internal returns false and its lock_guard unlocks mutex_
ZUpdate ==
    \E t \in ZThreads :
        /\ ~ztasks.crashed
        /\ ztasks.thr[t].pc = "update"
        /\ ztasks' = ZReturn([ztasks EXCEPT
                        !.tree = {p \in @ : p[1] # ztasks.thr[t].name}
                                   \cup {<<ztasks.thr[t].name, ztasks.thr[t].score>>},
                        !.mutex_ = "free"], t)
        /\ UNCHANGED <<cmdVars, zsetVars, connVars, parseVars, heapVars, avlVars,
                       hmVars, srvVars, poolVars, skipVars, flush, slocks>>

\* ZSet::query on the event-loop thread: tree.exists and lookup, without
\* mutex_; the call begins
ZQueryCall ==
    /\ ~ztasks.crashed
    /\ ztasks.loop = "idle"
    /\ ztasks' = [ztasks EXCEPT !.loop = "query"]
    /\ UNCHANGED <<cmdVars, zsetVars, connVars, parseVars, heapVars, avlVars,
                   hmVars, srvVars, poolVars, skipVars, flush, slocks>>

\* ZSet::query returns
ZQueryReturn ==
    /\ ~ztasks.crashed
    /\ ztasks.loop = "query"
    /\ ztasks' = [ztasks EXCEPT !.loop = "idle"]
    /\ UNCHANGED <<cmdVars, zsetVars, connVars, parseVars, heapVars, avlVars,
                   hmVars, srvVars, poolVars, skipVars, flush, slocks>>

NextZTask ==
    \/ ZAddCall \/ ZRun \/ ZLock \/ ZLookup \/ ZInsert \/ ZRelock \/ ZFind
    \/ ZUpdate \/ ZQueryCall \/ ZQueryReturn

----------------------------------------------------------------------------
(* The node locks of the SkipList (src/skiplist.hpp): set and del as above, *)
(* with each node_lock taken in a step of its own.  owner tells which       *)
(* thread holds the node_lock of a node, todo the node_locks a thread has   *)
(* still to take, in the order in which it takes them, and order lists the  *)
(* nodes by ascending address.                                              *)

NoLocks ==
    [owner |-> [n \in 1..MaxLockNodes |-> "free"],
     todo |-> [t \in SkipThreads |-> <<>>],
     order |-> <<head>>]

\* update[0] .. update[n - 1] as a set
UpdateNodes(upd, n) == {upd[i] : i \in 1..n} \ {nullptr}

\* nodes_to_lock of set: the nodes of unique_nodes, sorted by address
nodes_to_lock(order, unique_nodes) ==
    SelectSeq(order, LAMBDA n : n \in unique_nodes)

\* the nodes del locks from level i on: update[i] at each level below lvl,
\* a node once (had is the set seen of the code)
RECURSIVE del_locks(_, _, _, _)
del_locks(upd, i, lvl, had) ==
    IF i >= lvl THEN <<>>
    ELSE IF upd[i + 1] # nullptr /\ upd[i + 1] \notin had
    THEN <<upd[i + 1]>> \o del_locks(upd, i + 1, lvl, had \cup {upd[i + 1]})
    ELSE del_locks(upd, i + 1, lvl, had)

\* the locks of thread t go out of scope
Unlocked(owner, t) == [n \in DOMAIN owner |-> IF owner[n] = t THEN "free" ELSE owner[n]]

\* the call of thread t returns: sl is the list it leaves.  A node that set
\* allocated lies at some address, below or above any other node.
LockReturn(t, sl) ==
    /\ skiplist' = sl
    /\ sthreads' = [sthreads EXCEPT ![t] = Idle]
    /\ \E at \in IF Len(sl.nodes) > Len(skiplist.nodes)
                 THEN 0..Len(slocks.order) ELSE {0} :
         slocks' = [slocks EXCEPT
                      !.owner = Unlocked(@, t),
                      !.order = IF Len(sl.nodes) > Len(skiplist.nodes)
                                THEN SubSeq(@, 1, at) \o <<Len(sl.nodes)>>
                                       \o SubSeq(@, at + 1, Len(@))
                                ELSE @]

\* a thread calls set(k, 10 * k): the walk, the promotion, nodes_to_lock
LockSetWalk ==
    \E t \in SkipThreads, k \in SkipKeys, newLevel \in LevelChoices :
        /\ skiplist.fate = "running"
        /\ sthreads[t].pc = "idle"
        /\ Len(skiplist.nodes)
             + Cardinality({u \in SkipThreads : sthreads[u].pc \in {"setlock", "setnext"}})
              < MaxLockNodes
        /\ \E r \in {set_walk(skiplist, k, newLevel)} :
             /\ skiplist' = r.sl
             /\ sthreads' = [sthreads EXCEPT ![t] =
                               [pc |-> "setlock", key |-> k, update |-> r.update,
                                level |-> newLevel]]
             /\ slocks' = [slocks EXCEPT !.todo[t] =
                             nodes_to_lock(slocks.order, UpdateNodes(r.update, newLevel))]
        /\ UNCHANGED <<slast, sget, cmdVars, zsetVars, connVars, parseVars, heapVars,
                       avlVars, hmVars, srvVars, poolVars, flush, ztasks>>

\* a thread calls del(k): the walk
LockDelWalk ==
    \E t \in SkipThreads, k \in SkipKeys :
        /\ skiplist.fate = "running"
        /\ sthreads[t].pc = "idle"
        /\ \E upd \in {descend(skiplist.nodes, head, skiplist.currentLevel - 1, k,
                               NoUpdate, TRUE).update} :
             /\ sthreads' = [sthreads EXCEPT ![t] =
                               [pc |-> "dellock", key |-> k, update |-> upd,
                                level |-> skiplist.currentLevel]]
             /\ slocks' = [slocks EXCEPT !.todo[t] =
                             del_locks(upd, 0, skiplist.currentLevel, {})]
        /\ UNCHANGED <<skiplist, slast, sget, cmdVars, zsetVars, connVars, parseVars,
                       heapVars, avlVars, hmVars, srvVars, poolVars, flush, ztasks>>

\* std::unique_lock / std::lock_guard on the node_lock of the next node of
\* todo: the thread goes on when the mutex is free
LockAcquire ==
    \E t \in SkipThreads :
        /\ skiplist.fate = "running"
        /\ slocks.todo[t] # <<>>
        /\ slocks.owner[Head(slocks.todo[t])] = "free"
        /\ slocks' = [slocks EXCEPT !.owner[Head(slocks.todo[t])] = t,
                                    !.todo[t] = Tail(@)]
        /\ UNCHANGED <<skiplist, sthreads, slast, sget, cmdVars, zsetVars, connVars,
                       parseVars, heapVars, avlVars, hmVars, srvVars, poolVars, flush,
                       ztasks>>

\* set holds the locks of nodes_to_lock: when the key exists in a node that
\* is not among them it goes on to lock that node, else it writes and returns
LockSetLocked ==
    \E t \in SkipThreads :
        /\ skiplist.fate = "running"
        /\ sthreads[t].pc = "setlock"
        /\ slocks.todo[t] = <<>>
        /\ LET next == skiplist.nodes[sthreads[t].update[1]].forward_raw[1]
           IN  IF /\ next # nullptr
                  /\ skiplist.nodes[next].key = sthreads[t].key
                  /\ next \notin UpdateNodes(sthreads[t].update, sthreads[t].level)
               THEN /\ sthreads' = [sthreads EXCEPT ![t].pc = "setnext"]
                    /\ slocks' = [slocks EXCEPT !.todo[t] = <<next>>]
                    /\ UNCHANGED skiplist
               ELSE LockReturn(t, set_locked(skiplist, sthreads[t].update,
                                             sthreads[t].level, sthreads[t].key,
                                             10 * sthreads[t].key))
        /\ UNCHANGED <<slast, sget, cmdVars, zsetVars, connVars, parseVars, heapVars,
                       avlVars, hmVars, srvVars, poolVars, flush, ztasks>>

\* set holds the lock of the node of the key too: next->value = value
LockSetNext ==
    \E t \in SkipThreads :
        /\ skiplist.fate = "running"
        /\ sthreads[t].pc = "setnext"
        /\ slocks.todo[t] = <<>>
        /\ LockReturn(t, set_locked(skiplist, sthreads[t].update, sthreads[t].level,
                                    sthreads[t].key, 10 * sthreads[t].key))
        /\ UNCHANGED <<slast, sget, cmdVars, zsetVars, connVars, parseVars, heapVars,
                       avlVars, hmVars, srvVars, poolVars, flush, ztasks>>

\* del holds the locks of update: it returns when the key is not there,
\* else it goes on to lock target
LockDelLocked ==
    \E t \in SkipThreads :
        /\ skiplist.fate = "running"
        /\ sthreads[t].pc = "dellock"
        /\ slocks.todo[t] = <<>>
        /\ LET target == skiplist.nodes[sthreads[t].update[1]].forward_raw[1]
           IN  IF target = nullptr \/ skiplist.nodes[target].key # sthreads[t].key
               THEN LockReturn(t, skiplist)
               ELSE /\ sthreads' = [sthreads EXCEPT ![t].pc = "deltarget"]
                    /\ slocks' = [slocks EXCEPT !.todo[t] = <<target>>]
                    /\ UNCHANGED skiplist
        /\ UNCHANGED <<slast, sget, cmdVars, zsetVars, connVars, parseVars, heapVars,
                       avlVars, hmVars, srvVars, poolVars, flush, ztasks>>

\* del holds the lock of target too: it unlinks target and returns
LockDelTarget ==
    \E t \in SkipThreads, lucky \in BOOLEAN :
        /\ skiplist.fate = "running"
        /\ sthreads[t].pc = "deltarget"
        /\ slocks.todo[t] = <<>>
        /\ \E r \in {del_locked(skiplist, sthreads[t].update, sthreads[t].key)} :
             /\ r.ub \/ lucky
             /\ LockReturn(t, Outcome(r.sl, r.ub, lucky))
        /\ UNCHANGED <<slast, sget, cmdVars, zsetVars, connVars, parseVars, heapVars,
                       avlVars, hmVars, srvVars, poolVars, flush, ztasks>>

NextSkipLock ==
    \/ LockSetWalk \/ LockDelWalk \/ LockAcquire \/ LockSetLocked \/ LockSetNext
    \/ LockDelLocked \/ LockDelTarget

----------------------------------------------------------------------------
(* The initial state and the specifications: each takes the steps of one    *)
(* component and leaves the others where Init put them.                     *)

Init ==
    /\ InitConn
    /\ zset = NewZSet
    /\ zcall = NoCall
    /\ db = [k \in Keys |-> NoEntry]
    /\ heap = <<>>
    /\ now = 0
    /\ args = <<>>
    /\ response = <<>>
    /\ lastSet = [k \in Keys |-> NULL]
    /\ lastTTL = [k \in Keys |-> NoTTL]
    /\ pcall = NoParse
    /\ items_ = <<>>
    /\ slots = NewSlots
    /\ root_ = <<>>
    /\ pairs = {}
    /\ hmap = NewHashMap
    /\ present = {}
    /\ hcall = NoHashCall
    /\ connections_ = [fd \in Fds |-> NoConnection]
    /\ idle_list_ = <<>>
    /\ pool = [k \in Keys |-> 0]
    /\ timers = NoTimers
    /\ tasks_ = <<>>
    /\ stop = FALSE
    /\ threads_ = NewThreads
    /\ condition_ = {}
    /\ callers = NoCallers
    /\ tstate = NewTasks
    /\ skiplist = NewSkipList
    /\ sthreads = [t \in SkipThreads |-> Idle]
    /\ slast = [k \in SkipKeys |-> "none"]
    /\ sget = NoGet
    /\ flush = NoFlush
    /\ ztasks = NewZTasks
    /\ slocks = NoLocks

\* the verbs against each other, at one clock reading
SpecCmd == Init /\ [][NextCmd]_vars

\* the TTL verbs on string entries, as time passes
SpecTtl == Init /\ [][NextTtl]_vars

\* a ZSet on its own
SpecZSet == Init /\ [][NextZSet]_vars

\* one connection and its peer
SpecConn == Init /\ [][NextConn]_vars

\* the request parser on its own
SpecParser == Init /\ [][NextParser]_vars

SpecFlush == Init /\ [][NextFlush]_vars

\* an AVL tree on its own
SpecAvl == Init /\ [][NextAvl]_vars

\* a BinaryHeap on its own
SpecHeap == Init /\ [][NextHeap]_vars

\* a HashMap on its own
SpecHash == Init /\ [][NextHash]_vars

\* the server with its timers
SpecServer == Init /\ [][NextServer]_vars

\* a SkipList shared by two threads
SpecSkip == Init /\ [][NextSkip]_vars

\* a ZSet whose add tasks run on the threads of its pool
SpecZTask == Init /\ [][NextZTask]_vars

\* a SkipList shared by two threads, lock by lock
SpecSkipLock == Init /\ [][NextSkipLock]_vars

\* the thread pool with the threads that use it
SpecPool == Init /\ [][NextPool]_vars

\* the same, where every thread that can take a step of the pool's code
\* takes it in the end; spurious wakeups and the calls of the users are left
\* to chance
SpecPoolFair ==
    /\ SpecPool
    /\ WF_vars(NotifyOne)
    /\ WF_vars(DtorNotifyAll)
    /\ WF_vars(DtorJoin)
    /\ WF_vars(callers.waiter = "check" /\ WaitForTasks)
    /\ \A w \in Workers : WF_vars(WorkerTake(w)) /\ WF_vars(WorkerRun(w))

----------------------------------------------------------------------------
(* Properties of the command processor *)

\* a is a request of n arguments whose verb, lower-cased, is verb
IsReq(a, verb, n) == a # <<>> /\ Len(a) = n /\ to_lower(a[1]) = verb

Arity(verb) ==
    CASE verb = VerbGet -> 2 [] verb = VerbSet -> 3 [] verb = VerbZadd -> 4
      [] verb = VerbZquery -> 6 [] verb = VerbPexpire -> 3 [] verb = VerbPttl -> 2

Verbs == {VerbGet, VerbSet, VerbZadd, VerbZquery, VerbPexpire, VerbPttl}

\* a decimal integer: an optional sign and at least one digit, nothing else
IsDecimal(str) ==
    LET digits == IF str # <<>> /\ str[1] \in {"-", "+"} THEN Tail(str) ELSE str
    IN  digits # <<>> /\ \A i \in DOMAIN digits : isdigit(digits[i])

\* the request has a numeric argument that is no number
HasBadNumber(a) ==
    \/ IsReq(a, VerbZadd, 4) /\ ~IsDecimal(a[3])
    \/ IsReq(a, VerbZquery, 6)
          /\ (~IsDecimal(a[3]) \/ ~IsDecimal(a[5]) \/ ~IsDecimal(a[6]))
    \/ IsReq(a, VerbPexpire, 3) /\ ~IsDecimal(a[3])

WrongCount(a) ==
    a # <<>> /\ to_lower(a[1]) \in Verbs /\ Len(a) # Arity(to_lower(a[1]))

\* C4: for every verb a request with a wrong argument count or with a numeric
\* argument that does not parse is answered by exactly one Error(ARG) token,
\* and the key index, the entries and the heap stay as they were (no entry is
\* created).
C4_BadArgsChangeNothing ==
    [][ WrongCount(args') \/ HasBadNumber(args') =>
          /\ response' = <<ErrTok(ERR_ARG)>>
          /\ db' = db
          /\ heap' = heap
      ]_vars

\* a ZADD with a score that is no number, refused on a key that stays absent
\* while the other key holds an entry with a TTL
C4_Witness ==
    /\ IsReq(args, VerbZadd, 4) /\ HasBadNumber(args)
    /\ response = <<ErrTok(ERR_ARG)>>
    /\ db[args[2]] = NoEntry
    /\ heap # <<>>

\* C7: a ZADD on an absent key leaves an entry of kind sorted set, so that a
\* later ZADD on the key is accepted with Integer(1) or Integer(0) and a later
\* GET or SET is answered Error(TYPE).
C7_ZaddMakesSortedSet ==
    [][ /\ \A k \in Keys :
          IsReq(args', VerbZadd, 4) /\ args'[2] = k /\ parse_double(args'[3]).ok
             /\ db[k] = NoEntry
          => db'[k].type = "ZSet"
        /\ \A k \in Keys :
          IsReq(args', VerbZadd, 4) /\ args'[2] = k /\ parse_double(args'[3]).ok
             /\ db[k].zset.alloc
          => response' \in {<<IntTok(0)>>, <<IntTok(1)>>}
        /\ \A k \in Keys :
          (IsReq(args', VerbGet, 2) \/ IsReq(args', VerbSet, 3)) /\ args'[2] = k
             /\ db[k].zset.alloc
          => response' = <<ErrTok(ERR_TYPE)>>
      ]_vars

----------------------------------------------------------------------------
(* Properties of the TTL verbs *)

\* the heap items that belong to the entry of key k
ItemsOf(items, k) == {i \in DOMAIN items : items[i].ref = k}

\* milliseconds from t to expire_at, never below 0
Remaining(expire_at, t) ==
    IF expire_at > t THEN (expire_at - t) \div 1000 ELSE 0

\* C8: PTTL replies Integer(-2) for an absent key, Integer(-1) for a key with
\* no TTL, and otherwise the milliseconds left until the expire time that the
\* most recent PEXPIRE on that key set, whatever PEXPIRE did to other keys.
C8_PttlReportsOwnExpiry ==
    [][ \A k \in Keys :
          IsReq(args', VerbPttl, 2) /\ args'[2] = k =>
             response' = <<IntTok(IF db[k] = NoEntry THEN -2
                                  ELSE IF lastTTL[k] = NoTTL THEN -1
                                  ELSE Remaining(lastTTL[k], now))>>
      ]_vars

\* C9: PEXPIRE on an absent key replies Integer(0) and leaves the heap as it
\* was; PEXPIRE with a negative ttl on an existing key replies Integer(1) and
\* leaves the key without a pending expiry.
C9_PexpireAbsentOrNegative ==
    [][ \A k \in Keys :
          IsReq(args', VerbPexpire, 3) /\ args'[2] = k /\ IsDecimal(args'[3]) =>
             /\ db[k] = NoEntry =>
                   response' = <<IntTok(0)>> /\ heap' = heap
             /\ db[k] # NoEntry /\ parse_int(args'[3]).val < 0 =>
                   /\ response' = <<IntTok(1)>>
                   /\ db'[k].heap_idx = NONE
                   /\ ItemsOf(heap', k) = {}
      ]_vars

\* C10: a TTL of 0 leaves the entry with no heap item: heap_idx is none, the
\* heap holds one item fewer if the entry had a TTL and as many otherwise, and
\* the entry stays in the key index.
C10_ZeroTtlRemovesOwnItem ==
    [][ \A k \in Keys :
          IsReq(args', VerbPexpire, 3) /\ args'[2] = k /\ args'[3] = <<"0">>
             /\ db[k] # NoEntry =>
             /\ db'[k] # NoEntry
             /\ db'[k].heap_idx = NONE
             /\ ItemsOf(heap', k) = {}
             /\ Len(heap') = IF db[k].heap_idx # NONE
                             THEN Len(heap) - 1 ELSE Len(heap)
      ]_vars

----------------------------------------------------------------------------
(* Properties of the sorted set *)

\* (s1, n1) comes before (s2, n2): by score, then by name
PairLess(s1, n1, s2, n2) ==
    s1 < s2 \/ (s1 = s2 /\ NameRank(n1) < NameRank(n2))

\* the members of a set of <<name, score>> pairs in ascending (score, name)
RECURSIVE SortPairs(_)
SortPairs(S) ==
    IF S = {} THEN <<>>
    ELSE LET m == CHOOSE x \in S :
                    \A y \in S \ {x} : PairLess(x[2], x[1], y[2], y[1])
         IN  <<[name |-> m[1], score |-> m[2]]>> \o SortPairs(S \ {m})

\* what a range query is to return: the members not before (score, name), in
\* ascending (score, name), without the first offset of them, at most limit
RangeOf(members, score, name, offset, limit) ==
    LET from == SortPairs({p \in members :
                              ~PairLess(p[2], p[1], score, name)})
        rest == IF offset >= Len(from) THEN <<>>
                ELSE SubSeq(from, offset + 1, Len(from))
    IN  IF Len(rest) <= limit THEN rest ELSE SubSeq(rest, 1, limit)

\* C5: a range query returns the (name, score) pairs in ascending
\* (score, name) order, starting at the first member not before the given
\* (score, name) and moved on by offset, at most limit of them; on a:1, b:2,
\* c:2, d:3 the query (2, "", 0, 10) returns b, c, d.
C5_QueryReturnsRange ==
    zcall.op = "query" =>
        zcall.rows = RangeOf(zset.hash, zcall.score, zcall.name,
                             zcall.offset, zcall.limit)

\* C6: add returns true exactly when the name was no member; for a member it
\* returns false, leaves the number of members as it was, makes lookup carry
\* the new score, and the ordered index then lists the members in ascending
\* (score, name).  Stated for the names that are not empty.
C6_AddInsertsOrUpdates ==
    [][ zcall'.op = "add" /\ zcall'.name # "" =>
          /\ zcall'.ret = ~InHash(zset, zcall'.name)
          /\ InHash(zset, zcall'.name) =>
                /\ Cardinality(zset'.hash) = Cardinality(zset.hash)
                /\ lookup(zset', zcall'.name) # NULL
                /\ ScoreOf(zset', zcall'.name) = zcall'.score
          /\ \A i \in 1..(Len(InOrder(zset'.tree)) - 1) :
                PairLess(AVL_get(zset'.tree, InOrder(zset'.tree)[i]),
                         InOrder(zset'.tree)[i],
                         AVL_get(zset'.tree, InOrder(zset'.tree)[i + 1]),
                         InOrder(zset'.tree)[i + 1])
      ]_vars

----------------------------------------------------------------------------
(* Properties of the connection *)

IsPrefix(p, q) == Len(p) <= Len(q) /\ SubSeq(q, 1, Len(p)) = p

\* the framed replies to a sequence of requests, back to back
RECURSIVE FramedReplies(_)
FramedReplies(reqs) ==
    IF reqs = <<>> THEN <<>>
    ELSE LE32(Len(process_command_reply(Head(reqs))))
            \o process_command_reply(Head(reqs)) \o FramedReplies(Tail(reqs))

\* C1: the requests framed on a connection are executed in the order they
\* arrived; the bytes written, followed by the part of the write buffer still
\* to be sent, are the framed replies to the executed requests, one each, in
\* that order; and the server ends the connection only with every request
\* that had arrived executed.
C1_RepliesFollowRequests ==
    /\ IsPrefix(executed, sent)
    /\ sock_out \o SubSeq(conn.wbuf_, conn.wbuf_sent_ + 1, Len(conn.wbuf_))
          = FramedReplies(executed)
    /\ conn.state_ = "End" => Len(executed) = seen

----------------------------------------------------------------------------
\* C16: a ZQUERY whose arguments all parse is never refused for its offset
\* or its limit: with a limit of 0 or less the reply is the empty array, and
\* with a negative offset and a positive limit the reply is an array (or, on
\* a key of another kind, the TYPE error), never the ARG error.
C16_NegativeOffsetZeroLimit ==
    (/\ args # <<>>
     /\ to_lower(args[1]) = VerbZquery
     /\ Len(args) = 6
     /\ parse_double(args[3]).ok
     /\ parse_int(args[5]).ok
     /\ parse_int(args[6]).ok)
    => /\ parse_int(args[6]).val <= 0 /\ lookup_entry(db, args[2]).type # "String"
            => response = <<ArrTok(0)>>
       /\ parse_int(args[5]).val < 0 /\ parse_int(args[6]).val > 0
            => response # <<ErrTok(ERR_ARG)>>

----------------------------------------------------------------------------
\* C15: parse returns exactly the arguments of every request encoded as the
\* protocol says (total length, argument count, length-prefixed arguments),
\* and fails on every frame in which a declared length overruns the bytes
\* that follow.
C15_ParseRoundTrip ==
    /\ pcall.op = "encoded" => pcall.ok /\ pcall.cmd = pcall.req
    /\ pcall.op = "overrun" => ~pcall.ok

\* C14: with only part of a frame in the read buffer try_process_request runs
\* no command, leaves the connection in Request and keeps the bytes.
C14_PartialFrameWaits ==
    pcall.op = "partial"
    => /\ pcall.ran = <<>>
       /\ pcall.state_ = "Request"
       /\ pcall.rbuf_ = pcall.data

----------------------------------------------------------------------------
\* C13: a connection refuses a frame for its length exactly when the frame
\* declares more than MAX_MSG_SIZE bytes: no request of such a frame is ever
\* run, and a connection whose peer has not shut down ends only after such a
\* frame was sent, every other frame being received and run.
C13_RefusedOnlyWhenOversized ==
    /\ \A i \in 1..Len(executed) : Len(Payload(executed[i])) <= MAX_MSG_SIZE
    /\ (conn.state_ = "End" /\ ~peer_closed)
        => \E i \in 1..Len(sent) : Len(Payload(sent[i])) > MAX_MSG_SIZE

----------------------------------------------------------------------------
\* the keys of a subtree in in-order
RECURSIVE KeysInOrder(_)
KeysInOrder(node) ==
    IF node = <<>> THEN <<>>
    ELSE KeysInOrder(node[1].left) \o <<node[1].key>> \o KeysInOrder(node[1].right)

RECURSIVE PairsOf(_)
PairsOf(node) ==
    IF node = <<>> THEN {}
    ELSE PairsOf(node[1].left) \cup {<<node[1].key, node[1].value>>}
            \cup PairsOf(node[1].right)

RECURSIVE Height(_)
Height(node) ==
    IF node = <<>> THEN 0
    ELSE LET l == Height(node[1].left)
             r == Height(node[1].right)
         IN  1 + (IF l > r THEN l ELSE r)

\* every node of the subtree is balanced and stores its height and its count
RECURSIVE WellFormed(_)
WellFormed(node) ==
    node # <<>> =>
        /\ Height(node[1].left) - Height(node[1].right) \in {-1, 0, 1}
        /\ node[1].depth = Height(node)
        /\ node[1].weight = Len(KeysInOrder(node))
        /\ WellFormed(node[1].left)
        /\ WellFormed(node[1].right)

\* C19: after every set and del the in-order traversal of the keys is
\* strictly increasing, the two subtrees of every node differ in height by
\* at most 1, and every node stores the height and the node count of its
\* subtree; the tree holds exactly the pairs set and not deleted since.
C19_AvlInvariants ==
    /\ \A i \in 1..(Len(KeysInOrder(root_)) - 1) :
          KeysInOrder(root_)[i] < KeysInOrder(root_)[i + 1]
    /\ WellFormed(root_)
    /\ PairsOf(root_) = pairs

\* a tree of three levels that a del has rebalanced and that a set on an
\* existing key has updated
C19_Witness ==
    /\ Height(root_) = 3
    /\ Len(KeysInOrder(root_)) = 4
    /\ \E p \in pairs : p[2] = 2

----------------------------------------------------------------------------
----------------------------------------------------------------------------
\* C20: after every push, pop and update, every item in the heap that has a
\* position reference finds its own index behind the reference.
C20_PositionRefsAgree ==
    \A i \in 1..Len(items_) :
        items_[i].ref # NULL => slots[items_[i].ref].heap_idx = i - 1

\* three tracked items that sifting has moved: the item of the first
\* reference sits last, the item of the last reference at the root
C20_Witness ==
    /\ Len(items_) = 3
    /\ \A i \in 1..3 : items_[i].ref # NULL
    /\ slots["r1"].heap_idx = 2
    /\ slots["r3"].heap_idx = 0
    /\ items_[1].val < items_[3].val

----------------------------------------------------------------------------
\* the keys of the nodes in a table, chain by chain
RECURSIVE NodesOf(_, _)
NodesOf(t, i) ==
    IF i > Len(t.buckets_) THEN <<>> ELSE t.buckets_[i] \o NodesOf(t, i + 1)

\* C18: every HashMap call returns, find(k) finds k exactly when k was
\* inserted and not removed since, and the two tables together hold every
\* such key once and no other key, whether a resize is under way or not.
C18_FindSeesInsertedKeys ==
    /\ ~hcall.hung
    /\ hcall.op = "find" => (hcall.found <=> hcall.key \in present)
    /\ LET nodes == NodesOf(hmap.primary_table_, 1) \o NodesOf(hmap.resizing_table_, 1)
       IN  /\ {nodes[i] : i \in 1..Len(nodes)} = present
           /\ Len(nodes) = Cardinality(present)

----------------------------------------------------------------------------
\* C11: a process_timers call leaves the server running; every entry it
\* hands to the thread pool is handed over once, is gone from the key index
\* and from the heap, and is not used by the loop afterwards; when the call
\* returns the root of the heap is not due, unless max_ttl_ops items were
\* handled; items that are not due, and their entries, are as before.
C11_ExpirerHandlesDueItemsOnce ==
    [][ProcessTimers =>
        LET handled == {k \in Keys : pool'[k] > pool[k]}
        IN  /\ timers'.fate = "running"
            /\ \A k \in handled :
                  /\ pool'[k] = pool[k] + 1
                  /\ db'[k] = NoEntry
                  /\ \A i \in DOMAIN heap' : heap'[i].ref # k
                  /\ k \notin timers'.touched
            /\ \/ heap' = <<>>
               \/ heap'[1].val > now
               \/ Cardinality(handled) = max_ttl_ops
            /\ \A i \in DOMAIN heap :
                  heap[i].val > now =>
                     /\ \E j \in DOMAIN heap' : heap'[j] = heap[i]
                     /\ db'[heap[i].ref] = db[heap[i].ref]]_vars

\* C12: when process_timers returns, no open connection has its last I/O
\* attempt IDLE_TIMEOUT or more in the past, and every connection the call
\* closed had.
C12_ReaperClosesIdleOnly ==
    [][ProcessTimers =>
        \A fd \in Fds :
           /\ connections_'[fd].open =>
                 now - connections_'[fd].idle_start_ < IDLE_TIMEOUT * 1000
           /\ connections_[fd].open /\ ~connections_'[fd].open =>
                 now - connections_[fd].idle_start_ >= IDLE_TIMEOUT * 1000]_vars

----------------------------------------------------------------------------
\* what holds of the tasks at every moment: no task has run twice, the queue
\* holds the accepted tasks no worker has taken, each once, a task is refused
\* on a stopped pool only, and when the destructor has returned the queue is
\* empty, every worker has returned and every accepted task has run
PoolSafe ==
    /\ \A t \in Tasks :
          /\ tstate[t].runs = (IF tstate[t].status = "finished" THEN 1 ELSE 0)
          /\ tstate[t].status = "rejected" => stop
          /\ Cardinality({i \in DOMAIN tasks_ : tasks_[i] = t})
                = (IF tstate[t].status = "queued" THEN 1 ELSE 0)
    /\ callers.owner = "destroyed" =>
          /\ tasks_ = <<>>
          /\ \A w \in Workers : threads_[w].pc = "exited"
          /\ \A t \in Accepted : tstate[t].status = "finished"

\* C21: PoolSafe holds throughout, enqueue accepts a task only while the
\* pool is not stopped, and every accepted task is run to its end by a worker.
C21_EveryTaskRunsOnce ==
    /\ []PoolSafe
    /\ [][\A t \in Tasks :
            tstate[t].status = "new" /\ tstate'[t].status = "queued" => ~stop]_vars
    /\ \A t \in Tasks : (tstate[t].status = "queued") ~> (tstate[t].status = "finished")

\* C22: when wait_for_tasks has returned, every task that was accepted
\* before the call has run to its end.
C22_WaitMeansFinished ==
    callers.waiter = "returned" =>
        \A t \in callers.before : tstate[t].status = "finished"

----------------------------------------------------------------------------
\* C23: the threads that share the SkipList keep running; a get that finds
\* its key yields ten times the key; and when no thread is in a call, every
\* key whose last completed operation was a set is found by get with that
\* value.
C23_SharedSkipListKeepsSets ==
    /\ skiplist.fate = "running"
    /\ sget.found => sget.value = 10 * sget.key
    /\ (\A t \in SkipThreads : sthreads[t].pc = "idle") =>
          \A k \in SkipKeys :
             slast[k] = "set" =>
                get(skiplist, k).found /\ get(skiplist, k).value = 10 * k

----------------------------------------------------------------------------
\* C24: a process_io call on a connection in Request that takes n > 0 bytes
\* off the socket leaves a read buffer that ends the bytes buffered before
\* followed by those n bytes; the read buffer never holds more than
\* MAX_MSG_SIZE bytes afterwards; and the call moves the connection to End
\* only when the peer has shut down or the buffered bytes do not parse.
C24_ReadAppendsEndsOnlyOnClose ==
    [][(ProcessIO /\ conn.state_ = "Request") =>
         LET n == Len(sock_in) - Len(sock_in')
             buffered == conn.rbuf_ \o SubSeq(sock_in, 1, n)
             kept == Len(buffered) - Len(conn'.rbuf_)
         IN  /\ n > 0 => /\ kept >= 0
                         /\ conn'.rbuf_ = SubSeq(buffered, kept + 1, Len(buffered))
             /\ Len(conn'.rbuf_) <= MAX_MSG_SIZE
             /\ conn'.state_ = "End" =>
                   \/ peer_closed
                   \/ Len(buffered) >= 4 /\ ~parse(buffered).ok]_vars

C26_FrameConsumedExactly ==
    (pcall.op = "frames" /\ pcall.ran # <<>>)
    => LET L == ReadLE32(pcall.data, 0)
       IN  pcall.rbuf_ = SubSeq(pcall.data, 4 + L + 1, Len(pcall.data))

----------------------------------------------------------------------------
\* C27: a connection that sends replies is in Request only with every byte
\* of every reply written; in Response it has part of wbuf_ still to send,
\* and the bytes written so far followed by the part of wbuf_ after
\* wbuf_sent_ are the bytes of the replies, each once and in order.
C27_FlushWritesEachByteOnce ==
    /\ flush.c.state_ \in {"Request", "Response"}
    /\ flush.c.state_ = "Request" =>
          /\ flush.out = flush.want
          /\ flush.c.wbuf_ = <<>> /\ flush.c.wbuf_sent_ = 0
    /\ flush.c.state_ = "Response" =>
          /\ flush.c.wbuf_sent_ < Len(flush.c.wbuf_)
          /\ flush.out \o SubSeq(flush.c.wbuf_, flush.c.wbuf_sent_ + 1,
                                 Len(flush.c.wbuf_)) = flush.want

\* a reply was sent in several attempts, a write having failed with EAGAIN
\* in between, and the connection is in Request again
C27_SentAcrossAttempts ==
    /\ flush.blocked
    /\ flush.c.state_ = "Request"
    /\ Len(flush.out) = MaxReplies * 13

----------------------------------------------------------------------------
\* C28: a connection in End never leaves End except by being removed, no
\* request changes the key index in the step that drives it, and it is not
\* in the connection map any more when the second process_timers call since
\* it went to End has returned (the call of the tick in which it went to End
\* and the call of the tick after).
C28_EndedConnectionGoneNextTick ==
    /\ [](\A fd \in Fds :
             (connections_[fd].open /\ connections_[fd].state_ = "End")
                => timers.ended[fd] < 2)
    /\ [][\A fd \in Fds :
             (connections_[fd].open /\ connections_[fd].state_ = "End") =>
                /\ connections_'[fd].open => connections_'[fd].state_ = "End"
                /\ (\E relock \in {"deadlock", "through"} : IoOn(fd, "error", relock))
                      => db' = db /\ heap' = heap]_vars

\* C29: when process_io fails on a connection, the step leaves the
\* connection out of the connection map and out of the idle list, and the
\* event loop runs on.
C29_FailedConnectionRemoved ==
    [][\A fd \in Fds, relock \in {"deadlock", "through"} :
          IoOn(fd, "error", relock) =>
             /\ ~connections_'[fd].open
             /\ \A i \in DOMAIN idle_list_' : idle_list_'[i] # fd
             /\ timers'.fate = "running"]_vars

\* an expiry is due: the head of the idle list has been idle for
\* IDLE_TIMEOUT, or the root of the TTL heap has reached its time
ExpiryDue ==
    \/ /\ idle_list_ # <<>>
       /\ now - connections_[Head(idle_list_)].idle_start_ >= IDLE_TIMEOUT * 1000
    \/ /\ heap # <<>>
       /\ heap[1].val <= now

\* C30: the timeout the event loop gives to poll is never negative, and the
\* loop is never in a poll without time limit while an expiry is due.
C30_TimeoutNeverNegative ==
    /\ [][Elapse => calculate_next_timeout(connections_, idle_list_, heap, now) >= 0]_vars
    /\ [](~(timers.waiting /\ ExpiryDue))

----------------------------------------------------------------------------
\* C31: every entry has at most one heap item, its heap_idx is i exactly when
\* the item at position i refers to it and is none exactly when no item
\* does; and a PEXPIRE with a positive ttl on an entry that has an item
\* leaves the heap as long as it was.
C31_OneItemPerEntry ==
    /\ [](\A k \in Keys :
             db[k] # NoEntry =>
                /\ Cardinality(ItemsOf(heap, k)) <= 1
                /\ \A i \in DOMAIN heap :
                      (db[k].heap_idx = i - 1) <=> (heap[i].ref = k)
                /\ (db[k].heap_idx = NONE) <=> (ItemsOf(heap, k) = {}))
    /\ [][\A k \in Keys :
             (/\ IsReq(args', VerbPexpire, 3) /\ args'[2] = k
              /\ IsDecimal(args'[3]) /\ parse_int(args'[3]).val > 0
              /\ db[k] # NoEntry /\ db[k].heap_idx # NONE)
             => Len(heap') = Len(heap)]_vars

\* the items of a heap that refer to other entries than k
OtherItems(items, k) == {items[i] : i \in {j \in DOMAIN items : items[j].ref # k}}

\* C32: a PEXPIRE with ttl 0 on an entry that has a heap item takes exactly
\* that item off the heap and sets heap_idx to none: the heap is one item
\* shorter, and the items of the other entries are there as before, with
\* their expire times and references.
C32_CancelRemovesOwnItemOnly ==
    [][\A k \in Keys :
          (/\ IsReq(args', VerbPexpire, 3) /\ args'[2] = k /\ args'[3] = <<"0">>
           /\ db[k] # NoEntry /\ db[k].heap_idx # NONE)
          => /\ db'[k].heap_idx = NONE
             /\ Len(heap') = Len(heap) - 1
             /\ OtherItems(heap', k) = OtherItems(heap, k)]_vars

----------------------------------------------------------------------------
\* how often the value v is in the heap items
CountVal(items, v) == Cardinality({i \in DOMAIN items : items[i].val = v})

\* C33: after every push, pop and update of a changed item no item of the
\* heap compares less than its parent; and pop takes away one item whose
\* value is the least in the heap and leaves the others.
C33_HeapOrderAndPopMin ==
    /\ [](\A i \in 2..Len(items_) :
             ~compare_(items_[i].val, items_[parent(i - 1) + 1].val))
    /\ [][HeapPop =>
            /\ \A i \in DOMAIN items_ : items_[1].val <= items_[i].val
            /\ Len(items_') = Len(items_) - 1
            /\ \A v \in HeapValues :
                  CountVal(items_', v) =
                     CountVal(items_, v) - (IF v = items_[1].val THEN 1 ELSE 0)]_vars

\* push, pop and update have left a heap of four items in which the root and
\* its right child hold the least value and the other two the greatest
C33_SiftedHeap ==
    /\ Len(items_) >= 4
    /\ items_[1].val = 1
    /\ items_[2].val = 3
    /\ items_[3].val = 1
    /\ items_[4].val = 3

----------------------------------------------------------------------------
\* every node of the tree has owner as its parent pointer at the top and
\* the address of the node that holds it below
RECURSIVE ParentsAgree(_, _)
ParentsAgree(node, owner) ==
    \/ node = <<>>
    \/ /\ node[1].parent = owner
       /\ ParentsAgree(node[1].left, node[1].addr)
       /\ ParentsAgree(node[1].right, node[1].addr)

\* C34: after every set and del the parent pointer of the root is null and
\* the parent pointer of every other node is the node that holds it.
C34_ParentPointersAgree == ParentsAgree(root_, 0)

----------------------------------------------------------------------------
\* C35: every HashMap insert, find and remove returns, having moved at most
\* RESIZE_WORK_CHUNK nodes from the resizing table to the primary table, and
\* when insert or find returns, a resizing table that is still held has
\* nodes in it.
C35_CallsReturnAfterBoundedWork ==
    /\ ~hcall.hung
    /\ hcall.moved <= RESIZE_WORK_CHUNK
    /\ (hcall.op \in {"insert", "find"} /\ hmap.has)
          => NodesOf(hmap.resizing_table_, 1) # <<>>

\* C36: size() is the number of keys present in the two tables together,
\* and empty() holds exactly when no key is present.
C36_SizeCountsPresentKeys ==
    ~hcall.hung =>
        /\ HM_size(hmap) = Cardinality(present)
        /\ HM_empty(hmap) <=> (present = {})

----------------------------------------------------------------------------
\* the pool threads that stand inside the indices of the set
InIndices == {t \in ZThreads : ztasks.thr[t].pc \in {"lookup", "insert", "find", "update"}}

\* C37: no add task is blocked for good, and no thread locks the mutex of
\* the set while it holds it.
C37_AddNeverRelocks ==
    \A t \in ZThreads :
        /\ ztasks.thr[t].pc # "hung"
        /\ ~(ztasks.thr[t].pc = "relock" /\ ztasks.mutex_ = t)

\* C38: no pool thread is inside the name index or the ordered index of a
\* sorted set that an entry of the key index holds, and the indices are
\* never used by two threads at the same time.
C38_PoolTasksKeepOffTheSet ==
    /\ InIndices = {}
    /\ Cardinality(InIndices) + (IF ztasks.loop = "query" THEN 1 ELSE 0) <= 1

----------------------------------------------------------------------------
\* C39: a thread blocked in wait_for_tasks returns in the end, and a task
\* that is in the queue while a thread is blocked in wait_for_tasks is run
\* to its end by a worker.
C39_WaiterReturnsAndTasksRun ==
    /\ (callers.waiter = "asleep") ~> (callers.waiter = "returned")
    /\ \A t \in Tasks :
          (tstate[t].status = "queued" /\ callers.waiter = "asleep")
             ~> (tstate[t].status = "finished")

----------------------------------------------------------------------------
\* the node whose lock thread t is about to take, or nullptr
Wanted(t) == IF slocks.todo[t] = <<>> THEN nullptr ELSE Head(slocks.todo[t])

\* C40: no thread asks for a node lock it holds, and the threads are never
\* each waiting for a node lock that another of them holds.
C40_NodeLocksNeverDeadlock ==
    /\ \A t \in SkipThreads :
          Wanted(t) # nullptr => slocks.owner[Wanted(t)] # t
    /\ ~(\A t \in SkipThreads :
            /\ Wanted(t) # nullptr
            /\ slocks.owner[Wanted(t)] \in SkipThreads \ {t})

====
